---- MODULE Spec2Model ----
(***************************************************************************)
(* Model of the match compiler of match-transformer: the structural type   *)
(* lattice (src/src/type.ts), the match table (match-table.ts), the        *)
(* decision-tree compiler (src/src/decision-tree.ts) and the run-time       *)
(* tests the back-end emits for a compiled tree (src/src/ast.ts).           *)
(*                                                                         *)
(* Encoding.  A Union is a sequence of Types (a JS array, order kept).     *)
(* A Type is a record with the source's field names.  The ordered Map of   *)
(* an object type is a sequence of [name, union] entries in insertion      *)
(* order.  A result that may be undefined is a sequence of length 0        *)
(* (undefined) or 1 (the value).  Tuple and array indices are 0-based as   *)
(* in the source; sequences are indexed at index + 1.                      *)
(***************************************************************************)
EXTENDS Integers, Sequences, FiniteSets, TLC

VARIABLES
    input,      \* Union: the declared type of the scrutinee
    patterns,   \* sequence of Unions: one pattern per case, case i at i + 1
    stack,      \* pending decisionTreeCompile calls: [path, table], head first
    tree,       \* the decision tree built so far: path -> node
    calls,      \* (history) the call that produced each node: path -> Call
    status,     \* "idle", "running", "done" or "crashed" (an assertion failed)
    trail,      \* (history) the branches of decisionTreeCompile taken so far
    applied,    \* a library function called on its own: [fn, args]
    returned    \* what that call returned: a value, undefined or a throw

vars == <<input, patterns, stack, tree, calls, status, trail, applied, returned>>

\* the variables of a library call made on its own
library == <<applied, returned>>

\* the variables of a compilation
compilation == <<input, patterns, stack, tree, calls, status, trail>>

----------------------------------------------------------------------------
(* Sequence helpers standing for the JS array idioms of the source.        *)

None == <<>>
Some(x) == <<x>>

RECURSIVE ConcatAll(_)
ConcatAll(ss) == IF ss = <<>> THEN <<>> ELSE Head(ss) \o ConcatAll(Tail(ss))


----------------------------------------------------------------------------
(* Constructors of the type lattice.                                       *)

Unknown == [kind |-> "unknown"]
Lit(k, v) == [kind |-> "literal", literal |-> [kind |-> k, value |-> v]]
LitUndefined == [kind |-> "literal", literal |-> [kind |-> "undefined"]]
LitNull == [kind |-> "literal", literal |-> [kind |-> "null"]]
Prim(p) == [kind |-> "primitive", primitive |-> p]
TupleT(es) == [kind |-> "tuple", elements |-> es]
ArrayT(e) == [kind |-> "array", element |-> e]
ObjectT(fs) == [kind |-> "object", fields |-> fs]
RecordT(v) == [kind |-> "record", value |-> v]
Field(n, u) == [name |-> n, union |-> u]

\* Map.get on an object type's fields
FieldsGet(fields, n) ==
    IF \E i \in 1..Len(fields) : fields[i].name = n
    THEN Some(fields[CHOOSE i \in 1..Len(fields) : fields[i].name = n].union)
    ELSE None

\* Map.set: an existing key keeps its position, a new key is appended
FieldsSet(fields, n, u) ==
    IF \E i \in 1..Len(fields) : fields[i].name = n
    THEN [i \in 1..Len(fields) |->
            IF fields[i].name = n THEN Field(n, u) ELSE fields[i]]
    ELSE Append(fields, Field(n, u))

FieldsValues(fields) == [i \in 1..Len(fields) |-> fields[i].union]

----------------------------------------------------------------------------
(* Equality functions.                                                     *)

literalEqual(a, b) ==
    CASE a.kind = "number" -> b.kind = "number" /\ a.value = b.value
      [] a.kind = "string" -> b.kind = "string" /\ a.value = b.value
      [] a.kind = "boolean" -> b.kind = "boolean" /\ a.value = b.value
      [] a.kind = "bigint" -> b.kind = "bigint" /\ a.value = b.value
      [] a.kind = "undefined" -> b.kind = "undefined"
      [] a.kind = "null" -> b.kind = "null"

primitiveEqual(a, b) == a = b

RECURSIVE typeEqual(_, _), unionEqual(_, _), UnionEqualFrom(_, _),
          unionAllEqual(_, _), objectFieldsEqual(_, _)

objectFieldsEqual(a, b) ==
    /\ Len(a) = Len(b)
    /\ \A i \in 1..Len(a) :
          LET bv == FieldsGet(b, a[i].name)
          IN  bv # None /\ unionEqual(a[i].union, bv[1])

typeEqual(a, b) ==
    CASE a.kind = "unknown" -> b.kind = "unknown"
      [] a.kind = "literal" ->
            b.kind = "literal" /\ literalEqual(a.literal, b.literal)
      [] a.kind = "primitive" ->
            b.kind = "primitive" /\ primitiveEqual(a.primitive, b.primitive)
      [] a.kind = "tuple" ->
            b.kind = "tuple" /\ unionAllEqual(a.elements, b.elements)
      [] a.kind = "array" -> b.kind = "array" /\ unionEqual(a.element, b.element)
      [] a.kind = "object" ->
            b.kind = "object" /\ objectFieldsEqual(a.fields, b.fields)
      [] a.kind = "record" -> b.kind = "record" /\ unionEqual(a.value, b.value)

\* the loop of unionEqual: each member of a removes its first equal in b
UnionEqualFrom(a, b) ==
    IF a = <<>> THEN TRUE
    ELSE LET hits == {i \in 1..Len(b) : typeEqual(a[1], b[i])}
         IN  IF hits = {} THEN FALSE
             ELSE LET i == CHOOSE h \in hits : \A g \in hits : h <= g
                  IN  UnionEqualFrom(Tail(a),
                                     SubSeq(b, 1, i - 1) \o SubSeq(b, i + 1, Len(b)))

unionEqual(a, b) == Len(a) = Len(b) /\ UnionEqualFrom(a, b)

unionAllEqual(as, bs) ==
    /\ Len(as) = Len(bs)
    /\ \A i \in 1..Len(as) : unionEqual(as[i], bs[i])

----------------------------------------------------------------------------
(* unionDedupe, unionFlatten.                                              *)

RECURSIVE DedupeFrom(_, _)
DedupeFrom(u, newUnion) ==
    IF u = <<>> THEN newUnion
    ELSE IF \E j \in 1..Len(newUnion) : typeEqual(u[1], newUnion[j])
         THEN DedupeFrom(Tail(u), newUnion)
         ELSE DedupeFrom(Tail(u), Append(newUnion, u[1]))

unionDedupe(u) == DedupeFrom(u, <<>>)

unionFlatten(us) == unionDedupe(ConcatAll(us))

----------------------------------------------------------------------------
(* Subtype functions.                                                      *)

literalIsSubtypeOfPrimitive(a, b) ==
    CASE a.kind = "number" -> b = "number"
      [] a.kind = "string" -> b = "string"
      [] a.kind = "boolean" -> b = "boolean"
      [] a.kind = "bigint" -> b = "bigint"
      [] a.kind = "undefined" -> FALSE
      [] a.kind = "null" -> FALSE

RECURSIVE typeIsSubtype(_, _), unionIsSubtype(_, _), tupleIsSubtype(_, _),
          objectIsSubtype(_, _)

\* tupleIsSubtype without the comparison of the lengths: the elements are
\* compared over the common prefix
TupleIsSubtypeOnCommonPrefix(as, bs) ==
    \A i \in 1..(IF Len(as) <= Len(bs) THEN Len(as) ELSE Len(bs)) :
        unionIsSubtype(as[i], bs[i])

tupleIsSubtype(as, bs) ==
    /\ Len(as) = Len(bs)
    /\ \A i \in 1..Len(as) : unionIsSubtype(as[i], bs[i])

\* iterates the fields of a, the candidate subtype, and looks each up in b
objectIsSubtype(a, b) ==
    \A i \in 1..Len(a) :
        LET bv == FieldsGet(b, a[i].name)
        IN  bv # None /\ unionIsSubtype(a[i].union, bv[1])

typeIsSubtype(a, b) ==
    CASE b.kind = "unknown" -> TRUE
      [] b.kind = "literal" ->
            a.kind = "literal" /\ literalEqual(a.literal, b.literal)
      [] b.kind = "primitive" ->
            \/ a.kind = "literal"
               /\ literalIsSubtypeOfPrimitive(a.literal, b.primitive)
            \/ a.kind = "primitive" /\ primitiveEqual(a.primitive, b.primitive)
      [] b.kind = "tuple" ->
            a.kind = "tuple" /\ tupleIsSubtype(a.elements, b.elements)
      [] b.kind = "array" ->
            \/ a.kind = "tuple"
               /\ unionIsSubtype(unionFlatten(a.elements), b.element)
            \/ a.kind = "array" /\ unionIsSubtype(a.element, b.element)
      [] b.kind = "object" ->
            a.kind = "object" /\ objectIsSubtype(a.fields, b.fields)
      [] b.kind = "record" ->
            \/ a.kind = "object"
               /\ unionIsSubtype(unionFlatten(FieldsValues(a.fields)), b.value)
            \/ a.kind = "record" /\ unionIsSubtype(a.value, b.value)

unionIsSubtype(a, b) ==
    \A i \in 1..Len(a) : \E j \in 1..Len(b) : typeIsSubtype(a[i], b[j])

----------------------------------------------------------------------------
(* Extremal elements.                                                      *)

typeMinima(ts) ==
    SelectSeq(ts, LAMBDA t1 :
        \A k \in 1..Len(ts) :
            ~typeIsSubtype(ts[k], t1) \/ typeEqual(t1, ts[k]))

typeMaxima(ts) ==
    SelectSeq(ts, LAMBDA t1 :
        \A k \in 1..Len(ts) :
            ~typeIsSubtype(t1, ts[k]) \/ typeEqual(t1, ts[k]))

RECURSIVE typeCanonicalize(_), unionCanonicalize(_)

typeCanonicalize(t) ==
    CASE t.kind \in {"unknown", "literal", "primitive"} -> t
      [] t.kind = "tuple" ->
            TupleT([i \in 1..Len(t.elements) |-> unionCanonicalize(t.elements[i])])
      [] t.kind = "array" -> ArrayT(unionCanonicalize(t.element))
      [] t.kind = "object" ->
            ObjectT([i \in 1..Len(t.fields) |->
                        Field(t.fields[i].name, unionCanonicalize(t.fields[i].union))])
      [] t.kind = "record" -> RecordT(unionCanonicalize(t.value))

unionCanonicalize(u) ==
    LET maxima == typeMaxima(u)
    IN  [i \in 1..Len(maxima) |-> typeCanonicalize(maxima[i])]

----------------------------------------------------------------------------
(* Intersection.                                                           *)

RECURSIVE typeIntersection(_, _), unionIntersection(_, _),
          ObjectIntersectFields(_, _)

\* the loop over b.fields of the object case of typeIntersection
ObjectIntersectFields(fields, bfields) ==
    IF bfields = <<>> THEN fields
    ELSE LET bk == bfields[1].name
             bv == bfields[1].union
             u == FieldsGet(fields, bk)
         IN  ObjectIntersectFields(
                 IF u = None THEN FieldsSet(fields, bk, bv)
                 ELSE FieldsSet(fields, bk, unionIntersection(u[1], bv)),
                 Tail(bfields))

typeIntersection(a, b) ==
    CASE a.kind = "unknown" -> Some(b)
      [] a.kind \in {"literal", "primitive"} ->
            IF typeIsSubtype(a, b) THEN Some(a)
            ELSE IF typeIsSubtype(b, a) THEN Some(b)
            ELSE None
      [] a.kind = "tuple" ->
            IF b.kind = "tuple" /\ Len(a.elements) = Len(b.elements)
            THEN Some(TupleT([i \in 1..Len(a.elements) |->
                        unionIntersection(a.elements[i], b.elements[i])]))
            ELSE None
      [] a.kind = "array" ->
            IF b.kind = "array"
            THEN Some(ArrayT(unionIntersection(a.element, b.element)))
            ELSE None
      [] a.kind = "object" ->
            IF b.kind = "object"
            THEN Some(ObjectT(ObjectIntersectFields(a.fields, b.fields)))
            ELSE None
      [] a.kind = "record" ->
            IF b.kind = "record"
            THEN Some(RecordT(unionIntersection(a.value, b.value)))
            ELSE None

\* for at of a, for bt of b: the defined intersections, in that order
unionIntersection(a, b) ==
    ConcatAll([i \in 1..Len(a) |->
        ConcatAll([j \in 1..Len(b) |-> typeIntersection(a[i], b[j])])])

----------------------------------------------------------------------------
(* Constructor equality, accessors, arguments.                             *)

objectFieldNamesEqual(a, b) ==
    /\ Len(a) = Len(b)
    /\ \A i \in 1..Len(a) : FieldsGet(b, a[i].name) # None

\* typeEqualConstructor that compares the kinds only: literals by kind,
\* tuples whatever their length, objects whatever their field names
EqualKindOnly(a, b) == a.kind = b.kind

typeEqualConstructor(a, b) ==
    CASE a.kind = "unknown" -> b.kind = "unknown"
      [] a.kind = "literal" ->
            b.kind = "literal" /\ literalEqual(a.literal, b.literal)
      [] a.kind = "primitive" ->
            b.kind = "primitive" /\ primitiveEqual(a.primitive, b.primitive)
      [] a.kind = "tuple" ->
            b.kind = "tuple" /\ Len(a.elements) = Len(b.elements)
      [] a.kind = "array" -> b.kind = "array"
      [] a.kind = "object" ->
            b.kind = "object" /\ objectFieldNamesEqual(a.fields, b.fields)
      [] a.kind = "record" -> b.kind = "record"

AccProperty(n) == [kind |-> "property", name |-> n]
AccIndex(i) == [kind |-> "index", index |-> i]
AccArrayElement == [kind |-> "array-element"]
AccRecordValues == [kind |-> "record-values"]

\* typeAccessUnion without the rule for unknown: only a constructed type has
\* something at an accessor
AccessUnionOfConstructedOnly(t, a) ==
    CASE a.kind = "property" ->
            IF t.kind = "object" /\ FieldsGet(t.fields, a.name) # None
            THEN FieldsGet(t.fields, a.name)
            ELSE IF t.kind = "record" THEN Some(t.value)
            ELSE None
      [] a.kind = "index" ->
            IF t.kind = "tuple" /\ a.index < Len(t.elements)
            THEN Some(t.elements[a.index + 1])
            ELSE IF t.kind = "array" THEN Some(t.element)
            ELSE None
      [] a.kind = "array-element" ->
            IF t.kind = "array" THEN Some(t.element) ELSE None
      [] a.kind = "record-values" ->
            IF t.kind = "record" THEN Some(t.value) ELSE None

typeAccessUnion(t, a) ==
    CASE a.kind = "property" ->
            IF t.kind = "unknown" THEN Some(<<Unknown>>)
            ELSE IF t.kind = "object"
                 THEN LET value == FieldsGet(t.fields, a.name)
                      IN  IF value = None THEN Some(<<Unknown>>) ELSE value
            ELSE IF t.kind = "record" THEN Some(t.value)
            ELSE None
      [] a.kind = "index" ->
            IF t.kind = "unknown" THEN Some(<<Unknown>>)
            ELSE IF t.kind = "tuple"
                 THEN IF a.index >= Len(t.elements) THEN Some(<<Unknown>>)
                      ELSE Some(t.elements[a.index + 1])
            ELSE IF t.kind = "array" THEN Some(t.element)
            ELSE None
      [] a.kind = "array-element" ->
            IF t.kind = "unknown" THEN Some(<<Unknown>>)
            ELSE IF t.kind = "array" THEN Some(t.element)
            ELSE IF t.kind = "tuple" THEN Some(unionFlatten(t.elements))
            ELSE None
      [] a.kind = "record-values" ->
            IF t.kind = "unknown" THEN Some(<<Unknown>>)
            ELSE IF t.kind = "record" THEN Some(t.value)
            ELSE None

\* the accessors of typeGetArguments, in its order (the unions it pairs
\* them with are never read by its callers)
typeGetArguments(t) ==
    CASE t.kind \in {"unknown", "literal", "primitive"} -> <<>>
      [] t.kind = "tuple" ->
            [i \in 1..Len(t.elements) |->
                [union |-> t.elements[i], accessor |-> AccIndex(i - 1)]]
      [] t.kind = "array" ->
            <<[union |-> t.element, accessor |-> AccArrayElement]>>
      [] t.kind = "object" ->
            [i \in 1..Len(t.fields) |->
                [union |-> t.fields[i].union,
                 accessor |-> AccProperty(t.fields[i].name)]]
      [] t.kind = "record" ->
            <<[union |-> t.value, accessor |-> AccRecordValues]>>

makeObjectFieldsUnknown(fields) ==
    [i \in 1..Len(fields) |-> Field(fields[i].name, <<Unknown>>)]

typeMakeArgumentsUnknown(t) ==
    CASE t.kind = "unknown" -> Unknown
      [] t.kind \in {"literal", "primitive"} -> t
      [] t.kind = "tuple" -> TupleT([i \in 1..Len(t.elements) |-> <<Unknown>>])
      [] t.kind = "array" -> ArrayT(<<Unknown>>)
      [] t.kind = "object" -> ObjectT(makeObjectFieldsUnknown(t.fields))
      [] t.kind = "record" -> RecordT(<<Unknown>>)

----------------------------------------------------------------------------
(* Replace-at-occurrence.                                                  *)

RECURSIVE typeReplaceAt(_, _, _, _), unionReplaceAt(_, _, _)

typeReplaceAt(t, a, o, replacement) ==
    CASE a.kind = "property" ->
            IF t.kind = "object"
            THEN LET union == FieldsGet(t.fields, a.name)
                 IN  Some(ObjectT(
                        IF union = None
                        THEN FieldsSet(t.fields, a.name, replacement)
                        ELSE FieldsSet(t.fields, a.name,
                                       unionReplaceAt(union[1], o, replacement))))
            ELSE None
      [] a.kind = "index" ->
            IF t.kind = "tuple"
            THEN IF a.index >= Len(t.elements) THEN None
                 ELSE Some(TupleT([t.elements EXCEPT ![a.index + 1] =
                                unionReplaceAt(@, o, replacement)]))
            ELSE None
      [] a.kind = "array-element" ->
            IF t.kind = "array"
            THEN Some(ArrayT(unionReplaceAt(t.element, o, replacement)))
            ELSE None
      [] a.kind = "record-values" ->
            IF t.kind = "record"
            THEN Some(RecordT(unionReplaceAt(t.value, o, replacement)))
            ELSE None

unionReplaceAt(u, o, replacement) ==
    IF o = <<>> THEN replacement
    ELSE ConcatAll([i \in 1..Len(u) |->
            typeReplaceAt(u[i], o[1], Tail(o), replacement)])

----------------------------------------------------------------------------
(* util: exactlyOne, cartesianProduct.                                     *)

exactlyOne(ts) == IF Len(ts) = 1 THEN Some(ts[1]) ELSE None

RECURSIVE ProductOfLengths(_)
ProductOfLengths(arrays) ==
    IF arrays = <<>> THEN 1
    ELSE Len(Head(arrays)) * ProductOfLengths(Tail(arrays))

\* divisors that are all 1: every array is indexed by i % length
DivisorAlwaysOne(arrays, j) == 1

\* divisors[j] = product of the lengths of the arrays before j
Divisor(arrays, j) == ProductOfLengths(SubSeq(arrays, 1, j - 1))

\* the i-th tuple the generator yields, i = 0 .. n - 1: the first array
\* varies fastest
cartesianProduct(arrays) ==
    [i1 \in 1..ProductOfLengths(arrays) |->
        [j \in 1..Len(arrays) |->
            arrays[j][(((i1 - 1) \div Divisor(arrays, j)) % Len(arrays[j])) + 1]]]

----------------------------------------------------------------------------
(* Match table.                                                            *)

MatchTable(in, occs, idx, rows) ==
    [input |-> in, occurrences |-> occs, caseIndices |-> idx, patternRows |-> rows]

matchTableColumnCount(m) == Len(m.occurrences)

matchTableRowCount(m) == Len(m.patternRows)

matchTableIsFail(m) == matchTableRowCount(m) = 0

\* matchTableSuccessCaseIndex returning the position of the remaining row
\* instead of its caseIndices entry
SuccessCaseIndexIsRowPosition(m) ==
    LET row == exactlyOne(m.patternRows)
    IN  IF row # None /\ Len(row[1]) = 0 THEN Some(0) ELSE None

matchTableSuccessCaseIndex(m) ==
    LET row == exactlyOne(m.patternRows)
    IN  IF row # None /\ Len(row[1]) = 0 THEN Some(m.caseIndices[1]) ELSE None

\* row.at(columnIndex) followed by exactlyOne, for every row: the two early
\* returns of both specializations
\* Array.prototype.at: a negative index counts back from the end, and an
\* index outside the array gives undefined
ArrayAt(array, index) ==
    LET k == IF index < 0 THEN index + Len(array) ELSE index
    IN  IF k \in 0..(Len(array) - 1) THEN Some(array[k + 1]) ELSE None

ColumnIsSingle(m, columnIndex) ==
    \A i \in 1..Len(m.patternRows) :
        /\ ArrayAt(m.patternRows[i], columnIndex) # None
        /\ exactlyOne(ArrayAt(m.patternRows[i], columnIndex)[1]) # None

\* the filter with the operands of typeIsSubtype exchanged: a row stays when
\* its pattern is a subtype of the checked type
KeptBySuccessPatternBelow(m, type, columnIndex) ==
    SelectSeq([i \in 1..Len(m.patternRows) |-> i], LAMBDA i :
        typeIsSubtype(typeMakeArgumentsUnknown(m.patternRows[i][columnIndex + 1][1]),
                      typeMakeArgumentsUnknown(type)))

\* the rows a specialization keeps, as indices in source order
KeptBySuccess(m, type, columnIndex) ==
    SelectSeq([i \in 1..Len(m.patternRows) |-> i], LAMBDA i :
        typeIsSubtype(typeMakeArgumentsUnknown(type),
                      typeMakeArgumentsUnknown(m.patternRows[i][columnIndex + 1][1])))

\* the assertion on typeAccessUnion inside matchTableSpecializeSuccess
SpecializeSuccessAsserts(m, type, columnIndex) ==
    LET typeArguments == typeGetArguments(type)
        kept == KeptBySuccess(m, type, columnIndex)
    IN  \A k \in 1..Len(kept) : \A a \in 1..Len(typeArguments) :
            typeAccessUnion(m.patternRows[kept[k]][columnIndex + 1][1],
                            typeArguments[a].accessor) # None

matchTableSpecializeSuccess(m, type, columnIndex) ==
    IF ~ColumnIsSingle(m, columnIndex) THEN None
    ELSE
    LET typeWithUnknownArguments == typeMakeArgumentsUnknown(type)
        typeArguments == typeGetArguments(type)
        occurrence == m.occurrences[columnIndex + 1]
        modifiedInputType ==
            unionReplaceAt(m.input, occurrence, <<typeWithUnknownArguments>>)
        kept == KeptBySuccess(m, type, columnIndex)
        newRow(row) ==
            SubSeq(row, 1, columnIndex)
            \o [a \in 1..Len(typeArguments) |->
                   typeAccessUnion(row[columnIndex + 1][1],
                                   typeArguments[a].accessor)[1]]
            \o SubSeq(row, columnIndex + 2, Len(row))
    IN  Some(MatchTable(
            unionIntersection(m.input, modifiedInputType),
            SubSeq(m.occurrences, 1, columnIndex)
            \o [a \in 1..Len(typeArguments) |->
                   Append(occurrence, typeArguments[a].accessor)]
            \o SubSeq(m.occurrences, columnIndex + 2, Len(m.occurrences)),
            [k \in 1..Len(kept) |-> m.caseIndices[kept[k]]],
            [k \in 1..Len(kept) |-> newRow(m.patternRows[kept[k]])]))

\* matchTableSpecializeFail with its filter negated: the rows of the checked
\* constructor stay and the others go
SpecializeFailKeepingChecked(m, type, columnIndex) ==
    IF ~ColumnIsSingle(m, columnIndex) THEN None
    ELSE
    LET kept == SelectSeq([i \in 1..Len(m.patternRows) |-> i], LAMBDA i :
                    typeEqualConstructor(type,
                                         m.patternRows[i][columnIndex + 1][1]))
    IN  Some(MatchTable(m.input, m.occurrences,
                        [k \in 1..Len(kept) |-> m.caseIndices[kept[k]]],
                        [k \in 1..Len(kept) |-> m.patternRows[kept[k]]]))

\* matchTableSpecializeFail that also drops the rows whose pattern is a
\* subtype of the checked type (the row of 65 under a check of number)
SpecializeFailDroppingSubtypes(m, type, columnIndex) ==
    IF ~ColumnIsSingle(m, columnIndex) THEN None
    ELSE
    LET kept == SelectSeq([i \in 1..Len(m.patternRows) |-> i], LAMBDA i :
                    ~typeIsSubtype(ArrayAt(m.patternRows[i], columnIndex)[1][1],
                                   type))
    IN  Some(MatchTable(m.input, m.occurrences,
                        [k \in 1..Len(kept) |-> m.caseIndices[kept[k]]],
                        [k \in 1..Len(kept) |-> m.patternRows[kept[k]]]))

matchTableSpecializeFail(m, type, columnIndex) ==
    IF ~ColumnIsSingle(m, columnIndex) THEN None
    ELSE
    LET kept == SelectSeq([i \in 1..Len(m.patternRows) |-> i], LAMBDA i :
                    ~typeEqualConstructor(type,
                        ArrayAt(m.patternRows[i], columnIndex)[1][1]))
    IN  Some(MatchTable(m.input, m.occurrences,
                        [k \in 1..Len(kept) |-> m.caseIndices[kept[k]]],
                        [k \in 1..Len(kept) |-> m.patternRows[kept[k]]]))

matchTableExpand(m) ==
    LET blocks == [i \in 1..Len(m.patternRows) |->
                      LET product == cartesianProduct(m.patternRows[i])
                      IN  [k \in 1..Len(product) |->
                              [caseIndex |-> m.caseIndices[i],
                               row |-> [j \in 1..Len(product[k]) |->
                                           <<product[k][j]>>]]]]
        flat == ConcatAll(blocks)
    IN  MatchTable(m.input, m.occurrences,
                   [k \in 1..Len(flat) |-> flat[k].caseIndex],
                   [k \in 1..Len(flat) |-> flat[k].row])

\* every(zip(row, earlierRow), unionIsSubtype): zip stops at the shorter row
RowCoveredBy(row, earlierRow) ==
    \A k \in 1..(IF Len(row) <= Len(earlierRow) THEN Len(row) ELSE Len(earlierRow)) :
        unionIsSubtype(row[k], earlierRow[k])

\* matchTableRemove that stops filtering after the first row it removes
RemoveFirstCoveredOnly(m) ==
    LET covered == SelectSeq([i \in 1..Len(m.patternRows) |-> i], LAMBDA i :
                       \E j \in 1..(i - 1) :
                           RowCoveredBy(m.patternRows[i], m.patternRows[j]))
        kept == SelectSeq([i \in 1..Len(m.patternRows) |-> i], LAMBDA i :
                    covered = <<>> \/ i # covered[1])
    IN  MatchTable(m.input, m.occurrences,
                   [k \in 1..Len(kept) |-> m.caseIndices[kept[k]]],
                   [k \in 1..Len(kept) |-> m.patternRows[kept[k]]])

\* matchTableRemove that filters the rows and leaves caseIndices as they were
RemoveKeepingEveryCaseIndex(m) ==
    LET kept == SelectSeq([i \in 1..Len(m.patternRows) |-> i], LAMBDA i :
                    \A j \in 1..(i - 1) :
                        ~RowCoveredBy(m.patternRows[i], m.patternRows[j]))
    IN  MatchTable(m.input, m.occurrences, m.caseIndices,
                   [k \in 1..Len(kept) |-> m.patternRows[kept[k]]])

matchTableRemove(m) ==
    LET kept == SelectSeq([i \in 1..Len(m.patternRows) |-> i], LAMBDA i :
                    \A j \in 1..(i - 1) :
                        ~RowCoveredBy(m.patternRows[i], m.patternRows[j]))
    IN  MatchTable(m.input, m.occurrences,
                   [k \in 1..Len(kept) |-> m.caseIndices[kept[k]]],
                   [k \in 1..Len(kept) |-> m.patternRows[kept[k]]])

----------------------------------------------------------------------------
(* Candidate checks (decision-tree.ts).                                    *)

Check(t, j) == [type |-> t, columnIndex |-> j]

\* possibleChecks pushing the first minimum as it is, arguments included
possibleChecksWithArguments(m) ==
    IF \E j \in 1..matchTableColumnCount(m) : \E i \in 1..matchTableRowCount(m) :
            exactlyOne(m.patternRows[i][j]) = None
    THEN None
    ELSE LET column(j) == [i \in 1..matchTableRowCount(m) |-> m.patternRows[i][j][1]]
         IN  IF \E j \in 1..matchTableColumnCount(m) : typeMinima(column(j)) = <<>>
             THEN None
             ELSE Some([j \in 1..matchTableColumnCount(m) |->
                          Check(typeMinima(column(j))[1], j - 1)])

\* one candidate per column: the first minimum of the column, made outer-only
possibleChecks(m) ==
    IF \E j \in 1..matchTableColumnCount(m) : \E i \in 1..matchTableRowCount(m) :
            exactlyOne(m.patternRows[i][j]) = None
    THEN None
    ELSE LET column(j) == [i \in 1..matchTableRowCount(m) |-> m.patternRows[i][j][1]]
         IN  IF \E j \in 1..matchTableColumnCount(m) : typeMinima(column(j)) = <<>>
             THEN None
             ELSE Some([j \in 1..matchTableColumnCount(m) |->
                          Check(typeMakeArgumentsUnknown(typeMinima(column(j))[1]),
                                j - 1)])

isCheckSkippable(m, c) ==
    LET o == m.occurrences[c.columnIndex + 1]
        newInput == unionReplaceAt(m.input, o, <<c.type>>)
    IN  unionIsSubtype(m.input, newInput)

----------------------------------------------------------------------------
(* Run-time values and the JavaScript operations the emitted tests use.    *)
(* A string value is one character long, so that indexing or iterating it  *)
(* yields the string itself, as in JavaScript.                             *)

VUndefined == [kind |-> "undefined"]
VNull == [kind |-> "null"]
VBool(b) == [kind |-> "boolean", value |-> b]
VNum(n) == [kind |-> "number", value |-> n]
VBig(n) == [kind |-> "bigint", value |-> n]
VStr(c) == [kind |-> "string", value |-> c]
VArr(items) == [kind |-> "array", items |-> items]
VObj(props) == [kind |-> "object", props |-> props]
Prop(n, v) == [name |-> n, value |-> v]

JsTypeof(v) ==
    CASE v.kind \in {"null", "array", "object"} -> "object"
      [] OTHER -> v.kind

JsIsArray(v) == v.kind = "array"

\* testee === <literal>
JsStrictEqualsLiteral(v, l) ==
    /\ v.kind = l.kind
    /\ l.kind \in {"undefined", "null"} \/ v.value = l.value

\* "name" in testee: a TypeError (None) unless testee is an object
JsIn(n, v) ==
    CASE v.kind = "object" -> Some(\E i \in 1..Len(v.props) : v.props[i].name = n)
      [] v.kind = "array" -> Some(FALSE)
      [] OTHER -> None

\* testee.name: a TypeError (None) on undefined and null
JsGetProperty(v, n) ==
    CASE v.kind \in {"undefined", "null"} -> None
      [] v.kind = "object" /\ (\E i \in 1..Len(v.props) : v.props[i].name = n) ->
            Some(v.props[CHOOSE i \in 1..Len(v.props) : v.props[i].name = n].value)
      [] OTHER -> Some(VUndefined)

\* testee[index]
JsGetIndex(v, index) ==
    CASE v.kind \in {"undefined", "null"} -> None
      [] v.kind = "array" /\ index < Len(v.items) -> Some(v.items[index + 1])
      [] v.kind = "string" /\ index = 0 -> Some(v)
      [] OTHER -> Some(VUndefined)

\* for (x of testee): a TypeError (None) unless testee is iterable
JsIterate(v) ==
    CASE v.kind = "array" -> Some(v.items)
      [] v.kind = "string" -> Some(<<v>>)
      [] OTHER -> None

\* Object.values(testee)
JsObjectValues(v) ==
    CASE v.kind \in {"undefined", "null"} -> None
      [] v.kind = "array" -> Some(v.items)
      [] v.kind = "string" -> Some(<<v>>)
      [] v.kind = "object" -> Some([i \in 1..Len(v.props) |-> v.props[i].value])
      [] OTHER -> Some(<<>>)

----------------------------------------------------------------------------
(* The tests the back-end emits (ast.ts), evaluated on a value.  A result  *)
(* is Some(TRUE), Some(FALSE), or None when the expression throws.         *)

createTest(t, testee) ==
    CASE t.kind = "unknown" -> TRUE
      [] t.kind = "literal" -> JsStrictEqualsLiteral(testee, t.literal)
      [] t.kind = "primitive" -> JsTypeof(testee) = t.primitive
      [] t.kind = "tuple" ->
            JsIsArray(testee) /\ Len(testee.items) = Len(t.elements)
      [] t.kind = "array" -> JsIsArray(testee)
      [] t.kind = "object" ->
            /\ JsTypeof(testee) = "object"
            /\ testee.kind # "null"
            /\ \A i \in 1..Len(t.fields) : JsIn(t.fields[i].name, testee) = Some(TRUE)
      [] t.kind = "record" -> JsTypeof(testee) = "object" /\ testee.kind # "null"

RECURSIVE createTestAtOccurrence(_, _, _), TestEveryItem(_, _, _)

\* the loop `for (x of xs) if (!test(x)) return false; return true`
TestEveryItem(t, o, xs) ==
    IF xs = <<>> THEN Some(TRUE)
    ELSE LET r == createTestAtOccurrence(t, o, xs[1])
         IN  IF r = Some(TRUE) THEN TestEveryItem(t, o, Tail(xs)) ELSE r

createTestAtOccurrence(t, o, testee) ==
    IF o = <<>> THEN Some(createTest(t, testee))
    ELSE LET a == o[1]
             rest == Tail(o)
         IN  CASE a.kind = "property" ->
                    LET has == JsIn(a.name, testee)
                    IN  IF has = None THEN None
                        ELSE IF has = Some(FALSE) THEN Some(TRUE)
                        ELSE createTestAtOccurrence(t, rest,
                                 JsGetProperty(testee, a.name)[1])
               [] a.kind = "index" ->
                    LET x == JsGetIndex(testee, a.index)
                    IN  IF x = None THEN None
                        ELSE createTestAtOccurrence(t, rest, x[1])
               [] a.kind = "array-element" ->
                    LET xs == JsIterate(testee)
                    IN  IF xs = None THEN None ELSE TestEveryItem(t, rest, xs[1])
               [] a.kind = "record-values" ->
                    LET xs == JsObjectValues(testee)
                    IN  IF xs = None THEN None ELSE TestEveryItem(t, rest, xs[1])

----------------------------------------------------------------------------
(* Bounds and the inputs explored.                                         *)

MaxCases == 3   \* case lists have 1..MaxCases cases
MaxItems == 2   \* arrays among the run-time values have 0..MaxItems items
MaxDepth == 10  \* decisionTreeCompile recurses at most MaxDepth check nodes deep

CaseLists(U) == UNION {[1..n -> U] : n \in 1..MaxCases}

LBool(b) == Lit("boolean", b)
LNum(n) == Lit("number", n)
LStr(c) == Lit("string", c)

\* the scenarios of src/src/test.ts, one set of patterns (Unions) each
LiteralPatterns ==
    {<<LitUndefined>>, <<LitNull>>, <<LBool("true")>>, <<LBool("false")>>,
     <<LNum("65")>>, <<Lit("bigint", "42")>>, <<LStr("a")>>}

PrimitivePatterns ==
    {<<Prim("boolean")>>, <<Prim("number")>>, <<Prim("bigint")>>, <<Prim("string")>>}

ArrayPatterns ==
    {<<ArrayT(<<Prim("boolean")>>)>>, <<ArrayT(<<ArrayT(<<Prim("number")>>)>>)>>,
     <<ArrayT(<<Unknown>>)>>, <<ArrayT(<<Prim("boolean"), Prim("number")>>)>>}

RecordPatterns ==
    {<<RecordT(<<Prim("boolean")>>)>>, <<RecordT(<<LStr("a")>>)>>,
     <<RecordT(<<TupleT(<<<<LNum("65")>>, <<LNum("7")>>>>)>>)>>,
     <<RecordT(<<Unknown>>)>>}

TuplePatterns ==
    {<<TupleT(<<<<Prim("string")>>, <<Prim("string")>>>>)>>,
     <<TupleT(<<<<Unknown>>, <<Prim("number")>>>>)>>,
     <<TupleT(<<<<LStr("a")>>, <<LNum("65")>>>>)>>,
     <<TupleT(<<<<Prim("string"), Prim("boolean")>>, <<Prim("boolean")>>>>)>>,
     <<TupleT(<<<<Prim("number")>>>>)>>,
     <<TupleT(<<<<ObjectT(<<Field("a", <<LStr("b")>>), Field("b", <<Unknown>>)>>)>>>>)>>,
     <<TupleT(<<<<ObjectT(<<Field("b", <<Prim("number")>>)>>)>>>>)>>}

ObjectPatterns ==
    {<<ObjectT(<<Field("a", <<LStr("a")>>)>>)>>,
     <<ObjectT(<<Field("b", <<Prim("number"), ArrayT(<<Prim("number")>>)>>)>>)>>,
     <<ObjectT(<<Field("a", <<LStr("b")>>), Field("b", <<Unknown>>)>>)>>,
     <<ObjectT(<<Field("a", <<LStr("a")>>), Field("b", <<Prim("string")>>)>>),
       ObjectT(<<Field("a", <<LStr("b")>>), Field("c", <<Prim("number")>>)>>)>>}

UnionPatterns ==
    {<<Prim("boolean"), Prim("number")>>, <<Prim("string"), LitUndefined>>,
     <<Prim("string"), LStr("a"), Unknown>>, <<LNum("65"), LitNull>>,
     <<Prim("number"), TupleT(<<<<Prim("number")>>>>)>>,
     <<LitNull, ObjectT(<<Field("a", <<LStr("b")>>), Field("b", <<Unknown>>)>>)>>,
     <<LitUndefined, ObjectT(<<Field("b", <<Prim("number")>>)>>)>>}

MixedPatterns ==
    {<<Unknown>>, <<Prim("number")>>, <<LNum("65")>>,
     <<ArrayT(<<Prim("boolean")>>)>>,
     <<TupleT(<<<<Prim("number")>>, <<Prim("number")>>>>)>>,
     <<TupleT(<<<<LStr("a")>>, <<Unknown>>>>)>>}

MixedInputs ==
    {<<Unknown>>, <<Prim("number")>>,
     <<TupleT(<<<<Unknown>>, <<Unknown>>>>)>>,
     <<TupleT(<<<<Prim("string")>>, <<Prim("number")>>>>)>>}

\* a case list on which possibleChecks finds a column without a minimum
NoMinimumPatterns ==
    {<<TupleT(<<<<ArrayT(<<TupleT(<<<<Prim("number")>>>>), ArrayT(<<Prim("number")>>)>>)>>,
               <<LNum("65")>>>>)>>,
     <<TupleT(<<<<ArrayT(<<ArrayT(<<Prim("number")>>)>>)>>, <<LNum("7")>>>>)>>}

Scenarios ==
    {[inputs |-> {<<Unknown>>}, patterns |-> LiteralPatterns],
     [inputs |-> {<<Unknown>>}, patterns |-> PrimitivePatterns],
     [inputs |-> {<<Unknown>>}, patterns |-> ArrayPatterns],
     [inputs |-> {<<Unknown>>}, patterns |-> RecordPatterns],
     [inputs |-> {<<Unknown>>}, patterns |-> TuplePatterns],
     [inputs |-> {<<Unknown>>}, patterns |-> ObjectPatterns],
     [inputs |-> {<<Unknown>>}, patterns |-> UnionPatterns],
     [inputs |-> {<<Unknown>>}, patterns |-> NoMinimumPatterns],
     [inputs |-> MixedInputs, patterns |-> MixedPatterns],
     \* a matched expression of the declared type {b: number}
     [inputs |-> {<<ObjectT(<<Field("b", <<Prim("number")>>)>>)>>},
      patterns |-> ObjectPatterns]}

----------------------------------------------------------------------------
(* The entry point and the compiler, one action per branch of              *)
(* decisionTreeCompile.                                                    *)

\* nodeToMatch: one column at the empty occurrence, case i in row i
nodeToMatch(in, pats) ==
    MatchTable(in, <<<<>>>>, [i \in 1..Len(pats) |-> i - 1],
               [i \in 1..Len(pats) |-> <<pats[i]>>])

\* index.ts visitor: expand, then remove, then compile
EntryTable(in, pats) == matchTableRemove(matchTableExpand(nodeToMatch(in, pats)))

\* a pending call of decisionTreeCompile: the table it is called on, the
\* path of its result in the tree, and (history) the occurrences that were
\* specialised on the way to it, by an emitted or by a skipped check
Frame(p, m, sp) == [path |-> p, table |-> m, specialised |-> sp]

FailNode == [kind |-> "fail"]
SuccessNode(c) == [kind |-> "success", caseIndex |-> c]
CheckNode(t, o) == [kind |-> "check", type |-> t, occurrence |-> o]

\* (history) the call that produced a node: its table, the column of the
\* chosen check (-1 for a leaf) and the frame's specialised occurrences
Call(f, j) == [table |-> f.table, columnIndex |-> j, specialised |-> f.specialised]

\* findBestCheck returns cs[floor(cs.length * Math.random())]: any element
findBestCheck(cs) == {cs[i] : i \in 1..Len(cs)}

skippableChecks(m, checks) == SelectSeq(checks, LAMBDA c : isCheckSkippable(m, c))

\* remove(expand(specializeSuccess(m, c.type, c.columnIndex)))
CleanedUpSuccessTable(m, c) ==
    matchTableRemove(matchTableExpand(
        matchTableSpecializeSuccess(m, c.type, c.columnIndex)[1]))

\* the assertions of decisionTreeCompile and of the specialization it calls
AssertionsHold(m) ==
    LET checks == possibleChecks(m)
    IN  /\ checks # None
        /\ Len(checks[1]) > 0
        /\ \A i \in 1..Len(checks[1]) :
              LET c == checks[1][i]
              IN  /\ matchTableSpecializeSuccess(m, c.type, c.columnIndex) # None
                  /\ SpecializeSuccessAsserts(m, c.type, c.columnIndex)
                  /\ matchTableSpecializeFail(m, c.type, c.columnIndex) # None

Finish(rest) == IF rest = <<>> THEN "done" ELSE "running"

\* before the visitor meets a match expression
Init ==
    /\ input = <<Unknown>>
    /\ patterns = <<>>
    /\ stack = <<>>
    /\ tree = <<>>
    /\ calls = <<>>
    /\ status = "idle"
    /\ trail = {}
    /\ applied = [fn |-> "none"]
    /\ returned = [kind |-> "nothing"]

\* the visitor meets a match expression: it reads the input type and the
\* case list, and calls decisionTreeCompile on the cleaned-up entry table
Visit ==
    /\ status = "idle"
    /\ \E sc \in Scenarios : \E in \in sc.inputs : \E pats \in CaseLists(sc.patterns) :
          /\ input' = in
          /\ patterns' = pats
          /\ stack' = <<Frame(<<>>, EntryTable(in, pats), {})>>
    /\ status' = "running"
    /\ UNCHANGED <<tree, calls, trail>>
    /\ UNCHANGED library

CompileFail ==
    /\ status = "running"
    /\ matchTableIsFail(stack[1].table)
    /\ tree' = (stack[1].path :> FailNode) @@ tree
    /\ calls' = (stack[1].path :> Call(stack[1], -1)) @@ calls
    /\ stack' = Tail(stack)
    /\ status' = Finish(Tail(stack))
    /\ trail' = trail \cup {"fail"}
    /\ UNCHANGED <<input, patterns>>
    /\ UNCHANGED library

CompileSuccess ==
    /\ status = "running"
    /\ ~matchTableIsFail(stack[1].table)
    /\ matchTableSuccessCaseIndex(stack[1].table) # None
    /\ tree' = (stack[1].path :>
                  SuccessNode(matchTableSuccessCaseIndex(stack[1].table)[1])) @@ tree
    /\ calls' = (stack[1].path :> Call(stack[1], -1)) @@ calls
    /\ stack' = Tail(stack)
    /\ status' = Finish(Tail(stack))
    /\ trail' = trail \cup {"success"}
    /\ UNCHANGED <<input, patterns>>
    /\ UNCHANGED library

Undecided(m) == ~matchTableIsFail(m) /\ matchTableSuccessCaseIndex(m) = None

CompileAssertFails ==
    /\ status = "running"
    /\ Undecided(stack[1].table)
    /\ ~AssertionsHold(stack[1].table)
    /\ status' = "crashed"
    /\ trail' = trail \cup {"assert"}
    /\ UNCHANGED <<input, patterns, stack, tree, calls>>
    /\ UNCHANGED library

CompileSkippable ==
    /\ status = "running"
    /\ Undecided(stack[1].table)
    /\ AssertionsHold(stack[1].table)
    /\ LET m == stack[1].table
           sk == skippableChecks(m, possibleChecks(m)[1])
       IN  /\ Len(sk) > 0
           /\ \E c \in findBestCheck(sk) :
                 stack' = <<Frame(stack[1].path, CleanedUpSuccessTable(m, c),
                                  stack[1].specialised
                                  \cup {m.occurrences[c.columnIndex + 1]})>>
                          \o Tail(stack)
    /\ trail' = trail \cup {"skip"}
    /\ UNCHANGED <<input, patterns, tree, calls, status>>
    /\ UNCHANGED library

CompileCheck ==
    /\ status = "running"
    /\ Len(stack[1].path) < MaxDepth
    /\ Undecided(stack[1].table)
    /\ AssertionsHold(stack[1].table)
    /\ LET m == stack[1].table
           checks == possibleChecks(m)[1]
       IN  /\ Len(skippableChecks(m, checks)) = 0
           /\ \E bestCheck \in findBestCheck(checks) :
                 LET occurrence == m.occurrences[bestCheck.columnIndex + 1]
                 IN  /\ tree' = (stack[1].path :> CheckNode(bestCheck.type, occurrence))
                                @@ tree
                     /\ calls' = (stack[1].path :> Call(stack[1], bestCheck.columnIndex))
                                 @@ calls
                     /\ stack' =
                          <<Frame(Append(stack[1].path, "success"),
                                  CleanedUpSuccessTable(m, bestCheck),
                                  stack[1].specialised \cup {occurrence}),
                            Frame(Append(stack[1].path, "fail"),
                                  matchTableSpecializeFail(m, bestCheck.type,
                                                           bestCheck.columnIndex)[1],
                                  stack[1].specialised)>>
                          \o Tail(stack)
    /\ trail' = trail \cup {"check"}
    /\ UNCHANGED <<input, patterns, status>>
    /\ UNCHANGED library

Next ==
    \/ Visit
    \/ CompileFail
    \/ CompileSuccess
    \/ CompileAssertFails
    \/ CompileSkippable
    \/ CompileCheck

Spec == Init /\ [][Next]_vars

\* the three branches of decisionTreeCompile for a table that is neither fail
\* nor success: a failed assertion, a skippable check, or a split
CompileUndecided == CompileAssertFails \/ CompileSkippable \/ CompileCheck

\* ENABLED <<CompileUndecided>>_vars, from the guards of the three actions
CompileUndecidedEnabled ==
    /\ status = "running"
    /\ Undecided(stack[1].table)
    /\ \/ ~AssertionsHold(stack[1].table)
       \/ Len(skippableChecks(stack[1].table,
                              possibleChecks(stack[1].table)[1])) > 0
       \/ Len(stack[1].path) < MaxDepth

\* A call of decisionTreeCompile that can run does run: the compiler is one
\* synchronous call chain.  Weak fairness of CompileUndecided is written as
\* its definition, []<>~ENABLED <<A>>_vars \/ []<><<A>>_vars, with the
\* enabling condition spelled out.
FairSpec ==
    /\ Spec
    /\ WF_vars(Visit)
    /\ WF_vars(CompileFail)
    /\ WF_vars(CompileSuccess)
    /\ []<>(~CompileUndecidedEnabled) \/ []<><<CompileUndecided>>_vars

----------------------------------------------------------------------------
(* Evaluating a compiled tree (decisionTreeToExpression) on a value.       *)

Thrown == [kind |-> "thrown"]

RECURSIVE EvalAt(_, _, _)
\* the conditional expression emitted for the node at path p of tree d
EvalAt(d, p, v) ==
    LET n == d[p]
    IN  CASE n.kind = "fail" -> FailNode
          [] n.kind = "success" -> n
          [] n.kind = "check" ->
                LET r == createTestAtOccurrence(n.type, n.occurrence, v)
                IN  IF r = None THEN Thrown
                    ELSE IF r[1] THEN EvalAt(d, Append(p, "success"), v)
                    ELSE EvalAt(d, Append(p, "fail"), v)

decisionTreeToExpression(d, v) == EvalAt(d, <<>>, v)

----------------------------------------------------------------------------
(* The values of a type: what sequential testing of the cases decides.     *)

RECURSIVE ValueMatchesType(_, _), ValueMatchesUnion(_, _)

ValueMatchesType(v, t) ==
    CASE t.kind = "unknown" -> TRUE
      [] t.kind = "literal" -> JsStrictEqualsLiteral(v, t.literal)
      [] t.kind = "primitive" -> JsTypeof(v) = t.primitive
      [] t.kind = "tuple" ->
            /\ JsIsArray(v)
            /\ Len(v.items) = Len(t.elements)
            /\ \A i \in 1..Len(t.elements) :
                  ValueMatchesUnion(v.items[i], t.elements[i])
      [] t.kind = "array" ->
            /\ JsIsArray(v)
            /\ \A i \in 1..Len(v.items) : ValueMatchesUnion(v.items[i], t.element)
      [] t.kind = "object" ->
            /\ JsTypeof(v) = "object"
            /\ v.kind # "null"
            /\ \A i \in 1..Len(t.fields) :
                  /\ JsIn(t.fields[i].name, v) = Some(TRUE)
                  /\ ValueMatchesUnion(JsGetProperty(v, t.fields[i].name)[1],
                                       t.fields[i].union)
      [] t.kind = "record" ->
            /\ JsTypeof(v) = "object"
            /\ v.kind # "null"
            /\ LET xs == JsObjectValues(v)[1]
               IN  \A i \in 1..Len(xs) : ValueMatchesUnion(xs[i], t.value)

ValueMatchesUnion(v, u) == \E i \in 1..Len(u) : ValueMatchesType(v, u[i])

\* sequential testing: the first case whose pattern the value matches
SequentialMatch(pats, v) ==
    LET hits == {i \in 1..Len(pats) : ValueMatchesUnion(v, pats[i])}
    IN  IF hits = {} THEN FailNode
        ELSE SuccessNode((CHOOSE i \in hits : \A j \in hits : i <= j) - 1)

----------------------------------------------------------------------------
(* The run-time values explored.                                           *)

LeafValues ==
    {VUndefined, VNull, VBool("true"), VBool("false"), VNum("65"), VNum("7"),
     VBig("42"), VStr("a"), VStr("b")}

ItemValues ==
    {VBool("true"), VNum("65"), VNum("7"), VStr("a"), VArr(<<VNum("65")>>)}

ArrayValues ==
    {VArr(items) : items \in UNION {[1..n -> ItemValues] : n \in 0..MaxItems}}
    \cup {VArr(<<VStr("a"), VStr("a"), VStr("a")>>),
          VArr(<<VArr(<<VNum("65"), VNum("7")>>), VArr(<<VNum("65"), VNum("7")>>)>>),
          VArr(<<VArr(<<VBool("true")>>)>>),
          VArr(<<VObj(<<Prop("b", VNum("65"))>>)>>),
          VArr(<<VObj(<<Prop("a", VStr("b")), Prop("b", VNum("65"))>>)>>)}

PropertyValues ==
    {VStr("a"), VStr("b"), VNum("65"), VBool("true"), VArr(<<VNum("65")>>),
     VArr(<<VNum("65"), VNum("7")>>)}

\* objects over the property names a, b, c, properties in name order
ObjectValues ==
    {VObj(SelectSeq(<<Prop("a", f[1]), Prop("b", f[2]), Prop("c", f[3])>>,
                    LAMBDA q : q.value # VUndefined)) :
        f \in [1..3 -> PropertyValues \cup {VUndefined}]}

Values == LeafValues \cup ArrayValues \cup ObjectValues

\* the run-time values of the declared input type
InputValues == {v \in Values : ValueMatchesUnion(v, input)}

Done == status = "done"

----------------------------------------------------------------------------
(* Vocabulary of the properties.                                           *)

Checks == {p \in DOMAIN tree : tree[p].kind = "check"}

IsPrefix(a, b) == Len(a) <= Len(b) /\ SubSeq(b, 1, Len(a)) = a

Front(o) == SubSeq(o, 1, Len(o) - 1)

Dispatch(v) == decisionTreeToExpression(tree, v)

UnknownInput == input = <<Unknown>>

\* every case is a single type of one of the given kinds
CasesOfKind(kinds) ==
    \A i \in 1..Len(patterns) :
        Len(patterns[i]) = 1 /\ patterns[i][1].kind \in kinds

PairwiseDistinct ==
    \A i, j \in 1..Len(patterns) : i # j => patterns[i] # patterns[j]

RECURSIVE RefTree(_, _)
\* decisionTreeCompile when findBestCheck always returns the first candidate
RefTree(m, p) ==
    IF matchTableIsFail(m) THEN p :> FailNode
    ELSE IF matchTableSuccessCaseIndex(m) # None
         THEN p :> SuccessNode(matchTableSuccessCaseIndex(m)[1])
    ELSE IF ~AssertionsHold(m) \/ Len(p) >= MaxDepth THEN p :> Thrown
    ELSE LET checks == possibleChecks(m)[1]
             sk == skippableChecks(m, checks)
         IN  IF Len(sk) > 0 THEN RefTree(CleanedUpSuccessTable(m, sk[1]), p)
             ELSE LET c == checks[1]
                  IN  (p :> CheckNode(c.type, m.occurrences[c.columnIndex + 1]))
                      @@ RefTree(CleanedUpSuccessTable(m, c), Append(p, "success"))
                      @@ RefTree(matchTableSpecializeFail(m, c.type, c.columnIndex)[1],
                                 Append(p, "fail"))

----------------------------------------------------------------------------
\* C1: whenever compilation of a case list has finished, the tree sends
\* every value of the input type to success(k) for the first case k whose
\* pattern the value matches, and to fail when no pattern matches it.
C1_TreeEqualsSequential ==
    Done => \A v \in InputValues :
                decisionTreeToExpression(tree, v) = SequentialMatch(patterns, v)

\* C2: whatever findBestCheck chose, the finished tree sends every run-time
\* value of the declared input type to the leaf the first-candidate tree
\* sends it to, and compilation with first candidates finishes as well.
C2_ChoiceIndependent ==
    Done => LET ref == RefTree(EntryTable(input, patterns), <<>>)
            IN  /\ \A p \in DOMAIN ref : ref[p] # Thrown
                /\ \A v \in InputValues :
                      Dispatch(v) = decisionTreeToExpression(ref, v)

\* C3: under every sequence of check choices, compilation of an entry table
\* eventually finishes (with a tree, or by a failed assertion).
C3_Termination == <>(status \in {"done", "crashed"})

\* a finished compilation that went through the skippable path and through
\* nested success/fail splits
C3_Witness ==
    /\ Done
    /\ {"skip", "check"} \subseteq trail
    /\ \E p \in DOMAIN tree : Len(p) >= 3

\* C4: every node without children is fail or success(c); a fail leaf comes
\* from a table without rows, a success leaf from a table whose single row
\* has no columns, c is that row's caseIndices entry, and c is the position
\* of one of the cases supplied at entry.
C4_LeavesFailOrSuppliedSuccess ==
    \A p \in DOMAIN tree :
        LET n == tree[p]
            m == calls[p].table
        IN  /\ n.kind \in {"fail", "success", "check"}
            /\ n.kind = "fail" => matchTableRowCount(m) = 0
            /\ n.kind = "success" =>
                  /\ matchTableRowCount(m) = 1
                  /\ Len(m.patternRows[1]) = 0
                  /\ n.caseIndex = m.caseIndices[1]
                  /\ n.caseIndex \in 0..(Len(patterns) - 1)
            /\ Done /\ n.kind = "check" =>
                  {Append(p, "success"), Append(p, "fail")} \subseteq DOMAIN tree

\* a finished tree with a fail leaf and a success leaf for a case other than
\* the first, reached from a table that had lost its earlier rows
C4_Witness ==
    /\ Done
    /\ \E p \in DOMAIN tree : tree[p].kind = "fail"
    /\ \E p \in DOMAIN tree : tree[p].kind = "success" /\ tree[p].caseIndex >= 1

\* C5 (as stated): the occurrence of a check node extends the occurrence of
\* every check node above it on the path from the root.
C5_ExtendsEveryAncestor ==
    \A p \in Checks : \A q \in Checks :
        IsPrefix(q, p) => IsPrefix(tree[q].occurrence, tree[p].occurrence)

\* C5 (amended): a check node's type is outer-only, its occurrence is
\* occurrences[columnIndex] of the table the check was chosen on, and that
\* occurrence is empty or extends by one accessor an occurrence specialised
\* earlier on the way from the root, by an emitted or by a skipped check.
C5_OuterOnlyAtTableOccurrence ==
    \A p \in Checks :
        LET n == tree[p]
        IN  /\ n.type = typeMakeArgumentsUnknown(n.type)
            /\ \A k \in 1..Len(typeGetArguments(n.type)) :
                  typeGetArguments(n.type)[k].union = <<Unknown>>
            /\ calls[p].columnIndex \in 0..(matchTableColumnCount(calls[p].table) - 1)
            /\ n.occurrence = calls[p].table.occurrences[calls[p].columnIndex + 1]
            /\ \/ n.occurrence = <<>>
               \/ Front(n.occurrence) \in calls[p].specialised

\* a finished tree with a check two accessors deep and a check on a sibling
\* column below another check
C5_Witness ==
    /\ Done
    /\ \E p \in Checks : Len(tree[p].occurrence) = 2
    /\ \E p \in Checks : \E q \in Checks :
          IsPrefix(q, p) /\ ~IsPrefix(tree[q].occurrence, tree[p].occurrence)

\* what a literal or primitive case accepts
LeafMatches(v, t) ==
    IF t.kind = "literal" THEN JsStrictEqualsLiteral(v, t.literal)
    ELSE JsTypeof(v) = t.primitive

\* C6: with input unknown and cases that are pairwise distinct literals, or
\* pairwise distinct primitives, the finished tree sends a value to
\* success(i) exactly when it is strictly equal to literal i or its typeof is
\* primitive i, and to fail exactly when no case accepts it.
C6_LeafDispatch ==
    (/\ Done
     /\ UnknownInput
     /\ PairwiseDistinct
     /\ CasesOfKind({"literal"}) \/ CasesOfKind({"primitive"}))
    => \A v \in Values :
          /\ \A i \in 1..Len(patterns) :
                Dispatch(v) = SuccessNode(i - 1) <=> LeafMatches(v, patterns[i][1])
          /\ Dispatch(v) = FailNode <=>
                \A i \in 1..Len(patterns) : ~LeafMatches(v, patterns[i][1])

\* a finished tree for three distinct literals, among them null and undefined
C6_Witness ==
    /\ Done
    /\ UnknownInput
    /\ PairwiseDistinct
    /\ CasesOfKind({"literal"})
    /\ Len(patterns) = MaxCases
    /\ {<<LitUndefined>>, <<LitNull>>} \subseteq {patterns[i] : i \in 1..Len(patterns)}
    /\ Dispatch(VNull) # Dispatch(VUndefined)

\* C7: with input unknown and cases that are all array(E) or all record(E),
\* the finished tree selects the first case whose every element (property
\* value) matches E, and fails for values no case accepts.
C7_ElementWiseAggregates ==
    (/\ Done
     /\ UnknownInput
     /\ CasesOfKind({"array"}) \/ CasesOfKind({"record"}))
    => \A v \in Values : Dispatch(v) = SequentialMatch(patterns, v)

\* C8: with input unknown and cases that are all tuples, the finished tree
\* selects a case only for arrays of the tuple's length whose elements match
\* position by position, and every value goes to the first such case or fails.
C8_TupleDispatch ==
    (Done /\ UnknownInput /\ CasesOfKind({"tuple"}))
    => \A v \in Values :
          LET r == Dispatch(v)
          IN  /\ r.kind = "success" =>
                    /\ JsIsArray(v)
                    /\ Len(v.items) = Len(patterns[r.caseIndex + 1][1].elements)
              /\ r = SequentialMatch(patterns, v)

\* C9: with input unknown and cases that are object patterns or unions of
\* object patterns, the finished tree sends a value to the first case one of
\* whose patterns has all its fields present on the value with matching
\* shapes, whatever other fields the value has.
C9_ObjectDispatch ==
    (/\ Done
     /\ UnknownInput
     /\ \A i \in 1..Len(patterns) : \A k \in 1..Len(patterns[i]) :
           patterns[i][k].kind = "object")
    => \A v \in Values : Dispatch(v) = SequentialMatch(patterns, v)

\* C10: with input unknown and a case list in which some case is a union of
\* several types, a case is selected exactly for the values one of its
\* members matches and no earlier case matches, and when some case's union
\* contains unknown no value goes to fail.
C10_UnionCases ==
    (/\ Done
     /\ UnknownInput
     /\ \E i \in 1..Len(patterns) : Len(patterns[i]) >= 2)
    => \A v \in Values :
          /\ Dispatch(v) = SequentialMatch(patterns, v)
          /\ (\E i \in 1..Len(patterns) : \E k \in 1..Len(patterns[i]) :
                 patterns[i][k] = Unknown) => Dispatch(v) # FailNode

----------------------------------------------------------------------------
(* The match-table operations called on their own, on small tables.        *)

MaxRows == 3    \* a table given to an operation has 0..MaxRows rows

\* the cells of the one-column tables: single types, a union of two, and
\* the empty union
LibCells ==
    {<<Unknown>>, <<Prim("number")>>, <<LNum("65")>>,
     <<TupleT(<<<<LNum("65")>>, <<Unknown>>>>)>>,
     <<ArrayT(<<Prim("number")>>)>>,
     <<ObjectT(<<Field("a", <<LNum("65")>>)>>)>>, <<RecordT(<<Prim("number")>>)>>,
     <<Prim("number"), Prim("string")>>, <<>>}

\* row i carries case index i - 1
TableOfRows(in, occs, rows) ==
    MatchTable(in, occs, [i \in 1..Len(rows) |-> i - 1], rows)

LibTables ==
    LET pairCells == {<<Unknown>>, <<LNum("65")>>, <<Prim("number"), LStr("a")>>}
    IN  {TableOfRows(<<Unknown>>, <<<<>>>>, [i \in 1..n |-> <<cells[i]>>]) :
            n \in 0..MaxRows, cells \in [1..MaxRows -> LibCells]}
        \cup
        {TableOfRows(<<TupleT(<<<<Unknown>>, <<Unknown>>>>)>>,
                     <<<<AccIndex(0)>>, <<AccIndex(1)>>>>,
                     [i \in 1..n |-> <<left[i], right[i]>>]) :
            n \in 0..MaxRows, left \in [1..MaxRows -> pairCells],
            right \in [1..MaxRows -> pairCells]}

\* the types a column is specialised by
LibCheckTypes ==
    {Unknown, Prim("number"), LNum("65"), ArrayT(<<Unknown>>),
     TupleT(<<<<Unknown>>, <<Unknown>>>>),
     ObjectT(<<Field("a", <<Unknown>>)>>), RecordT(<<Unknown>>)}

Applied(fn, args) == [fn |-> fn, args |-> args]

NoCallYet == applied.fn = "none"

ReturnedValue(x) == [kind |-> "value", value |-> x]

ReturnedUndefined == [kind |-> "undefined"]

\* the return of a function declared to return T | undefined
ReturnedOrUndefined(r) == IF r = None THEN ReturnedUndefined ELSE ReturnedValue(r[1])

\* what the row loop of matchTableSpecializeSuccess does at row i: it returns
\* undefined at a cell that is not a single pattern, skips a filtered row,
\* throws when the assertion on an argument fails, and pushes a row otherwise
SuccessRowOutcome(m, type, columnIndex, i) ==
    LET patternUnion == ArrayAt(m.patternRows[i], columnIndex)
    IN  IF patternUnion = None \/ Len(patternUnion[1]) # 1 THEN "undefined"
        ELSE IF ~typeIsSubtype(typeMakeArgumentsUnknown(type),
                               typeMakeArgumentsUnknown(patternUnion[1][1]))
        THEN "continue"
        ELSE IF \E a \in 1..Len(typeGetArguments(type)) :
                    typeAccessUnion(patternUnion[1][1],
                                    typeGetArguments(type)[a].accessor) = None
        THEN "throw"
        ELSE "push"

\* matchTableSpecializeSuccess as a call.  m.occurrences[columnIndex] is
\* undefined for an index outside the array, and unionReplaceAt reads
\* o.at(0) of it: a TypeError, before the row loop.  In the loop the first
\* row that ends it decides between undefined and the assertion error.
SpecializeSuccessOrThrow(m, type, columnIndex) ==
    LET ending == SelectSeq([i \in 1..Len(m.patternRows) |-> i], LAMBDA i :
                      SuccessRowOutcome(m, type, columnIndex, i)
                          \in {"undefined", "throw"})
    IN  IF columnIndex \notin 0..(Len(m.occurrences) - 1) THEN Thrown
        ELSE IF ending = <<>>
        THEN ReturnedOrUndefined(matchTableSpecializeSuccess(m, type, columnIndex))
        ELSE IF SuccessRowOutcome(m, type, columnIndex, ending[1]) = "throw"
        THEN Thrown
        ELSE ReturnedUndefined

ApplySpecializeSuccess ==
    /\ NoCallYet
    /\ \E m \in LibTables : \E type \in LibCheckTypes :
       \E columnIndex \in (-1)..matchTableColumnCount(m) :
          /\ applied' = Applied("matchTableSpecializeSuccess",
                                <<m, type, columnIndex>>)
          /\ returned' = SpecializeSuccessOrThrow(m, type, columnIndex)
    /\ UNCHANGED compilation

ApplySpecializeFail ==
    /\ NoCallYet
    /\ \E m \in LibTables : \E type \in LibCheckTypes :
       \E columnIndex \in (-1)..matchTableColumnCount(m) :
          /\ applied' = Applied("matchTableSpecializeFail",
                                <<m, type, columnIndex>>)
          /\ returned' = ReturnedOrUndefined(
                              matchTableSpecializeFail(m, type, columnIndex))
    /\ UNCHANGED compilation

ApplyExpand ==
    /\ NoCallYet
    /\ \E m \in LibTables :
          /\ applied' = Applied("matchTableExpand", <<m>>)
          /\ returned' = ReturnedValue(matchTableExpand(m))
    /\ UNCHANGED compilation

ApplyRemove ==
    /\ NoCallYet
    /\ \E m \in LibTables :
          /\ applied' = Applied("matchTableRemove", <<m>>)
          /\ returned' = ReturnedValue(matchTableRemove(m))
    /\ UNCHANGED compilation

TableNext ==
    \/ ApplySpecializeSuccess
    \/ ApplySpecializeFail
    \/ ApplyExpand
    \/ ApplyRemove

TableSpec == Init /\ [][TableNext]_vars

\* a call of fn has returned
Called(fn) == applied.fn = fn

\* a call of fn has returned a table
ReturnedTable(fn) == Called(fn) /\ returned.kind = "value"

Rectangular(m) ==
    /\ Len(m.caseIndices) = Len(m.patternRows)
    /\ \A i \in 1..Len(m.patternRows) :
          Len(m.patternRows[i]) = Len(m.occurrences)

\* C11: when a rectangular table is given to matchTableSpecializeSuccess,
\* matchTableSpecializeFail, matchTableExpand or matchTableRemove and a table
\* comes back, that table has as many case indices as rows and every row of
\* it is as wide as its occurrences.
C11_OperationsKeepTablesRectangular ==
    \A fn \in {"matchTableSpecializeSuccess", "matchTableSpecializeFail",
               "matchTableExpand", "matchTableRemove"} :
        (ReturnedTable(fn) /\ Rectangular(applied.args[1]))
        => Rectangular(returned.value)

\* a tuple check on the first of two columns returned a table of three
\* columns that kept some rows and lost others
C11_Witness ==
    /\ ReturnedTable("matchTableSpecializeSuccess")
    /\ matchTableColumnCount(applied.args[1]) = 2
    /\ matchTableColumnCount(returned.value) = 3
    /\ matchTableRowCount(returned.value) \in 1..(matchTableRowCount(applied.args[1]) - 1)

----------------------------------------------------------------------------
(* The type functions called on their own (type.ts).                       *)

MaxTypes == 2    \* typeMinima and typeMaxima get lists of 1..MaxTypes types

LibTypes ==
    {Unknown, Prim("number"), Prim("string"), LNum("65"), LStr("a"),
     ArrayT(<<>>), ArrayT(<<Unknown>>), ArrayT(<<Prim("number")>>),
     ArrayT(<<Prim("string")>>), ArrayT(<<Prim("number"), LNum("65")>>),
     ArrayT(<<Prim("number"), Prim("number")>>),
     ArrayT(<<ArrayT(<<Prim("number"), LNum("65")>>), ArrayT(<<Prim("number")>>)>>),
     TupleT(<<>>), TupleT(<<<<LNum("65")>>>>),
     TupleT(<<<<LNum("65")>>, <<LStr("a")>>>>),
     TupleT(<<<<Prim("number")>>, <<Prim("string")>>>>),
     ObjectT(<<>>), ObjectT(<<Field("a", <<Prim("number")>>)>>),
     ObjectT(<<Field("a", <<LNum("65")>>)>>),
     ObjectT(<<Field("b", <<Prim("string")>>)>>),
     ObjectT(<<Field("a", <<Prim("number")>>), Field("b", <<Prim("string")>>)>>),
     RecordT(<<Unknown>>), RecordT(<<Prim("number")>>),
     RecordT(<<Prim("number"), Prim("string")>>)}

LibUnions ==
    {<<t>> : t \in LibTypes}
    \cup
    {<<>>, <<Prim("number"), LNum("65")>>, <<Prim("number"), Prim("string")>>,
     <<LStr("a"), LNum("65")>>,
     <<ArrayT(<<Prim("number"), LNum("65")>>), ArrayT(<<Prim("number")>>)>>,
     <<ArrayT(<<ArrayT(<<Prim("number"), LNum("65")>>), ArrayT(<<Prim("number")>>)>>),
       ArrayT(<<Prim("string")>>)>>,
     <<ObjectT(<<Field("a", <<Prim("number")>>)>>),
       ObjectT(<<Field("b", <<Prim("string")>>)>>)>>}

LibTypeLists == UNION {[1..n -> LibTypes] : n \in 1..MaxTypes}

ApplyTypeIsSubtype ==
    /\ NoCallYet
    /\ \E a \in LibTypes : \E b \in LibTypes :
          /\ applied' = Applied("typeIsSubtype", <<a, b>>)
          /\ returned' = ReturnedValue(typeIsSubtype(a, b))
    /\ UNCHANGED compilation

\* the three calls unionIsSubtype(u, v), unionIsSubtype(v, w) and
\* unionIsSubtype(u, w)
ApplyUnionIsSubtype ==
    /\ NoCallYet
    /\ \E u \in LibUnions : \E v \in LibUnions : \E w \in LibUnions :
          /\ applied' = Applied("unionIsSubtype", <<u, v, w>>)
          /\ returned' = ReturnedValue([uv |-> unionIsSubtype(u, v),
                                        vw |-> unionIsSubtype(v, w),
                                        uw |-> unionIsSubtype(u, w)])
    /\ UNCHANGED compilation

ApplyTypeMinima ==
    /\ NoCallYet
    /\ \E ts \in LibTypeLists :
          /\ applied' = Applied("typeMinima", <<ts>>)
          /\ returned' = ReturnedValue(typeMinima(ts))
    /\ UNCHANGED compilation

ApplyTypeMaxima ==
    /\ NoCallYet
    /\ \E ts \in LibTypeLists :
          /\ applied' = Applied("typeMaxima", <<ts>>)
          /\ returned' = ReturnedValue(typeMaxima(ts))
    /\ UNCHANGED compilation

ApplyUnionCanonicalize ==
    /\ NoCallYet
    /\ \E u \in LibUnions :
          /\ applied' = Applied("unionCanonicalize", <<u>>)
          /\ returned' = ReturnedValue(unionCanonicalize(u))
    /\ UNCHANGED compilation

ApplyUnionIntersection ==
    /\ NoCallYet
    /\ \E u \in LibUnions : \E v \in LibUnions :
          /\ applied' = Applied("unionIntersection", <<u, v>>)
          /\ returned' = ReturnedValue(unionIntersection(u, v))
    /\ UNCHANGED compilation

TypeNext ==
    \/ ApplyTypeIsSubtype
    \/ ApplyUnionIsSubtype
    \/ ApplyTypeMinima
    \/ ApplyTypeMaxima
    \/ ApplyUnionCanonicalize
    \/ ApplyUnionIntersection

TypeSpec == Init /\ [][TypeNext]_vars

\* C12: whenever typeIsSubtype(A, B) is called with B an object type, it
\* answers true exactly when A is an object type in which every field name of
\* B is present with a subunion of B's field; A may have more fields.
C12_ObjectWidthSubtyping ==
    (Called("typeIsSubtype") /\ applied.args[2].kind = "object") =>
        LET A == applied.args[1]
            bf == applied.args[2].fields
        IN  returned.value <=>
                /\ A.kind = "object"
                /\ \A i \in 1..Len(bf) :
                      LET av == FieldsGet(A.fields, bf[i].name)
                      IN  av # None /\ unionIsSubtype(av[1], bf[i].union)

\* C13: whenever typeMinima (typeMaxima) is called on a non-empty list, the
\* result is non-empty, it is the list of the members that have no strict
\* subtype (no strict supertype) in the list, in order, and no returned member
\* is a strict subtype of another.
C13_ExtremaNonEmptyAndExact ==
    LET StrictSubtype(a, b) == typeIsSubtype(a, b) /\ ~typeIsSubtype(b, a)
        PairwiseNotStrict(ts) ==
            \A i \in 1..Len(ts) : \A j \in 1..Len(ts) :
                ~StrictSubtype(ts[i], ts[j])
    IN  /\ (Called("typeMinima") /\ applied.args[1] # <<>>) =>
                LET ts == applied.args[1]
                IN  /\ returned.value # <<>>
                    /\ returned.value = SelectSeq(ts, LAMBDA t :
                            \A k \in 1..Len(ts) : ~StrictSubtype(ts[k], t))
                    /\ PairwiseNotStrict(returned.value)
        /\ (Called("typeMaxima") /\ applied.args[1] # <<>>) =>
                LET ts == applied.args[1]
                IN  /\ returned.value # <<>>
                    /\ returned.value = SelectSeq(ts, LAMBDA t :
                            \A k \in 1..Len(ts) : ~StrictSubtype(t, ts[k]))
                    /\ PairwiseNotStrict(returned.value)

\* C14: whenever unionIsSubtype answers true for (U, V) and for (V, W), it
\* answers true for (U, W) as well.
C14_UnionSubtypingTransitive ==
    Called("unionIsSubtype") =>
        ((returned.value.uv /\ returned.value.vw) => returned.value.uw)

\* a tuple strictly below an array (the tuple-to-array rule) that is strictly
\* below a union of two members
C14_Witness ==
    /\ Called("unionIsSubtype")
    /\ returned.value.uv /\ returned.value.vw /\ returned.value.uw
    /\ ~unionIsSubtype(applied.args[2], applied.args[1])
    /\ ~unionIsSubtype(applied.args[3], applied.args[2])
    /\ Len(applied.args[1]) = 1 /\ applied.args[1][1].kind = "tuple"
    /\ Len(applied.args[2]) = 1 /\ applied.args[2][1].kind = "array"
    /\ Len(applied.args[3]) = 2

\* C15: whenever typeIsSubtype(A, B) answers true and typeIsSubtype(B, A) is
\* true as well, the canonical forms of [A] and [B] are unionEqual.
C15_AntisymmetryUpToCanonicalization ==
    (/\ Called("typeIsSubtype")
     /\ returned.value
     /\ typeIsSubtype(applied.args[2], applied.args[1])) =>
        unionEqual(unionCanonicalize(<<applied.args[1]>>),
                   unionCanonicalize(<<applied.args[2]>>))

\* C16: whenever unionIntersection(u, v) is called, its result is a subunion
\* of u and a subunion of v.
C16_IntersectionBelowBoth ==
    Called("unionIntersection") =>
        /\ unionIsSubtype(returned.value, applied.args[1])
        /\ unionIsSubtype(returned.value, applied.args[2])

\* C17: whenever unionCanonicalize(u) is called, canonicalizing its result
\* again gives a union that is unionEqual to the result.
C17_CanonicalizeIdempotent ==
    Called("unionCanonicalize") =>
        unionEqual(unionCanonicalize(returned.value), returned.value)

\* C18: whenever matchTableRemove is called on a rectangular table, applying
\* matchTableRemove to its result changes nothing (same rows and same case
\* indices in the same order), and no row of the result is, cell by cell, a
\* subunion of an earlier row of the result.
C18_RemoveIdempotent ==
    (Called("matchTableRemove") /\ Rectangular(applied.args[1])) =>
        /\ matchTableRemove(returned.value) = returned.value
        /\ \A i \in 1..Len(returned.value.patternRows) : \A j \in 1..(i - 1) :
              ~RowCoveredBy(returned.value.patternRows[i],
                            returned.value.patternRows[j])

\* a call that removed a row and kept more than one
C18_Witness ==
    /\ Called("matchTableRemove")
    /\ matchTableRowCount(returned.value) = 2
    /\ matchTableRowCount(applied.args[1]) = 3
    /\ matchTableColumnCount(applied.args[1]) = 2
    /\ returned.value.caseIndices = <<0, 2>>

\* C19: whenever matchTableExpand(m) is called, every cell of the result is a
\* union of exactly one type; row i of m gives one block of result rows, the
\* blocks follow each other in the order of the rows of m, the block of row i
\* has as many rows as the Cartesian product of the cells of row i has
\* elements (none when a cell is the empty union), its rows are exactly the
\* elements of that product and they all carry the case index of row i; input
\* and occurrences are those of m; expanding the result again changes nothing.
C19_ExpandGivesSinglePatternBlocks ==
    Called("matchTableExpand") =>
        LET m == applied.args[1]
            r == returned.value
            n == Len(m.patternRows)
            Members(u) == {u[x] : x \in 1..Len(u)}
            \* the elements of the Cartesian product of the cells of a row,
            \* each as the row of single-pattern cells made of it
            SinglePatternRowsOf(row) ==
                {[j \in 1..Len(row) |-> <<pick[j]>>] :
                    pick \in {f \in [1..Len(row) ->
                                       UNION {Members(row[j]) : j \in 1..Len(row)}] :
                                 \A j \in 1..Len(row) : f[j] \in Members(row[j])}}
            \* the number of rows pushed for the rows before row i
            RECURSIVE RowsPushedBefore(_)
            RowsPushedBefore(i) ==
                IF i <= 1 THEN 0
                ELSE RowsPushedBefore(i - 1)
                     + ProductOfLengths(m.patternRows[i - 1])
            Block(i) == (RowsPushedBefore(i) + 1)..RowsPushedBefore(i + 1)
        IN  /\ r.input = m.input
            /\ r.occurrences = m.occurrences
            /\ \A k \in 1..Len(r.patternRows) : \A j \in 1..Len(r.patternRows[k]) :
                    Len(r.patternRows[k][j]) = 1
            /\ Len(r.patternRows) = RowsPushedBefore(n + 1)
            /\ Len(r.caseIndices) = RowsPushedBefore(n + 1)
            /\ \A i \in 1..n :
                    /\ \A k \in Block(i) : r.caseIndices[k] = m.caseIndices[i]
                    /\ {r.patternRows[k] : k \in Block(i)}
                           = SinglePatternRowsOf(m.patternRows[i])
            /\ matchTableExpand(r) = r

\* a row of a two-member cell, a row of the empty union and a row of one type
C19_Witness ==
    /\ Called("matchTableExpand")
    /\ matchTableRowCount(applied.args[1]) = 3
    /\ Len(applied.args[1].patternRows[1][1]) = 2
    /\ applied.args[1].patternRows[2][1] = <<>>
    /\ returned.value.caseIndices = <<0, 0, 2>>

\* the positions of the rows of m that are in the table returned by
\* matchTableSpecializeSuccess when the row at position i stays iff Stays(i):
\* the result has the case indices of those rows, in their order, and each
\* result row has the cells of its row of m outside the checked column
SurvivorsAre(Stays(_)) ==
    LET m == applied.args[1]
        columnIndex == applied.args[3]
        r == returned.value
        arity == Len(typeGetArguments(applied.args[2]))
        kept == SelectSeq([i \in 1..Len(m.patternRows) |-> i], Stays)
    IN  /\ Len(r.patternRows) = Len(kept)
        /\ r.caseIndices = [k \in 1..Len(kept) |-> m.caseIndices[kept[k]]]
        /\ \A k \in 1..Len(kept) :
              /\ SubSeq(r.patternRows[k], 1, columnIndex)
                    = SubSeq(m.patternRows[kept[k]], 1, columnIndex)
              /\ SubSeq(r.patternRows[k], columnIndex + arity + 1,
                        Len(r.patternRows[k]))
                    = SubSeq(m.patternRows[kept[k]], columnIndex + 2,
                             Len(m.patternRows[kept[k]]))

\* C20 (as stated): whenever matchTableSpecializeSuccess(m, T, j) returns a
\* table, a row with the single pattern p at column j stays iff p with unknown
\* arguments is a subtype of T with unknown arguments; the rows that stay keep
\* their order and their case indices.
C20_KeptIffPatternBelowCheck ==
    ReturnedTable("matchTableSpecializeSuccess") =>
        SurvivorsAre(LAMBDA i :
            typeIsSubtype(
                typeMakeArgumentsUnknown(
                    applied.args[1].patternRows[i][applied.args[3] + 1][1]),
                typeMakeArgumentsUnknown(applied.args[2])))

\* C20 (amended): whenever matchTableSpecializeSuccess(m, T, j) returns a
\* table, a row with the single pattern p at column j stays iff T with unknown
\* arguments is a subtype of p with unknown arguments (the pattern is the
\* checked constructor or something above it, such as unknown); the rows that
\* stay keep their order and their case indices.
C20_KeptIffCheckBelowPattern ==
    ReturnedTable("matchTableSpecializeSuccess") =>
        SurvivorsAre(LAMBDA i :
            typeIsSubtype(
                typeMakeArgumentsUnknown(applied.args[2]),
                typeMakeArgumentsUnknown(
                    applied.args[1].patternRows[i][applied.args[3] + 1][1])))

\* a check of number on the rows unknown, 65, number: the literal row goes,
\* the unknown row stays
C20_Witness ==
    /\ ReturnedTable("matchTableSpecializeSuccess")
    /\ applied.args[2] = Prim("number")
    /\ matchTableRowCount(applied.args[1]) = 3
    /\ applied.args[1].patternRows[1][applied.args[3] + 1] = <<Unknown>>
    /\ applied.args[1].patternRows[2][applied.args[3] + 1] = <<LNum("65")>>
    /\ returned.value.caseIndices = <<0, 2>>

\* C21: whenever matchTableSpecializeSuccess(m, T, j) is called with j a
\* column of m, it does not throw; and whenever it returns a table, that
\* table has columnCount(m) - 1 + (number of arguments of T) columns, the
\* columns before and after j keep their occurrences and their cells, and
\* column j is replaced by one column per argument of T, in the order of
\* typeGetArguments, whose occurrence is occurrences[j] followed by the
\* argument's accessor and whose cell, in each kept row, is what
\* typeAccessUnion gives for the row's pattern and that accessor.
C21_ColumnRewrite ==
    LET m == applied.args[1]
        T == applied.args[2]
        j == applied.args[3]
        r == returned.value
        arguments == typeGetArguments(T)
        arity == Len(arguments)
        After(row) == SubSeq(row, j + 2, Len(row))
    IN  /\ (Called("matchTableSpecializeSuccess")
             /\ j \in 0..(matchTableColumnCount(m) - 1))
                => returned.kind # "thrown"
        /\ ReturnedTable("matchTableSpecializeSuccess") =>
              /\ matchTableColumnCount(r) = matchTableColumnCount(m) - 1 + arity
              /\ SubSeq(r.occurrences, 1, j) = SubSeq(m.occurrences, 1, j)
              /\ SubSeq(r.occurrences, j + arity + 1, Len(r.occurrences))
                    = After(m.occurrences)
              /\ \A a \in 1..arity :
                    r.occurrences[j + a]
                        = Append(m.occurrences[j + 1], arguments[a].accessor)
              /\ \A k \in 1..Len(r.patternRows) :
                    LET row == m.patternRows[r.caseIndices[k] + 1]
                        new == r.patternRows[k]
                    IN  /\ Len(new) = matchTableColumnCount(r)
                        /\ SubSeq(new, 1, j) = SubSeq(row, 1, j)
                        /\ SubSeq(new, j + arity + 1, Len(new)) = After(row)
                        /\ \A a \in 1..arity :
                              /\ typeAccessUnion(row[j + 1][1],
                                                  arguments[a].accessor) # None
                              /\ new[j + a]
                                    = typeAccessUnion(row[j + 1][1],
                                                      arguments[a].accessor)[1]

\* a check of a pair on the first of two columns: the rows unknown and 65,
\* the row of unknown stays and has three cells
C21_Witness ==
    /\ ReturnedTable("matchTableSpecializeSuccess")
    /\ applied.args[2].kind = "tuple"
    /\ applied.args[3] = 0
    /\ matchTableColumnCount(applied.args[1]) = 2
    /\ matchTableColumnCount(returned.value) = 3
    /\ matchTableRowCount(applied.args[1]) = 2
    /\ matchTableRowCount(returned.value) = 1
    /\ returned.value.occurrences
          = <<<<AccIndex(0), AccIndex(0)>>, <<AccIndex(0), AccIndex(1)>>,
              <<AccIndex(1)>>>>

\* C22: whenever matchTableSpecializeFail(m, T, j) is called with j a column
\* of m and every cell of m a single pattern, it returns a table with the
\* input and the occurrences of m whose rows are exactly the rows of m with a
\* pattern at column j that typeEqualConstructor does not equate with T, in
\* their order, each with its case index and its cells as they were.
C22_FailKeepsOtherConstructors ==
    LET m == applied.args[1]
        T == applied.args[2]
        j == applied.args[3]
        r == returned.value
        kept == SelectSeq([i \in 1..Len(m.patternRows) |-> i], LAMBDA i :
                    ~typeEqualConstructor(T, m.patternRows[i][j + 1][1]))
    IN  (/\ Called("matchTableSpecializeFail")
         /\ j \in 0..(matchTableColumnCount(m) - 1)
         /\ Rectangular(m)
         /\ \A i \in 1..Len(m.patternRows) : \A k \in 1..Len(m.patternRows[i]) :
               Len(m.patternRows[i][k]) = 1) =>
            /\ returned.kind = "value"
            /\ r.input = m.input
            /\ r.occurrences = m.occurrences
            /\ r.caseIndices = [k \in 1..Len(kept) |-> m.caseIndices[kept[k]]]
            /\ r.patternRows = [k \in 1..Len(kept) |-> m.patternRows[kept[k]]]

\* a check of number on the rows unknown, number, 65: the row of number
\* goes, the rows of unknown and of 65 stay
C22_Witness ==
    /\ ReturnedTable("matchTableSpecializeFail")
    /\ applied.args[2] = Prim("number")
    /\ applied.args[3] = 0
    /\ matchTableRowCount(applied.args[1]) = 3
    /\ applied.args[1].patternRows[1][1] = <<Unknown>>
    /\ applied.args[1].patternRows[2][1] = <<Prim("number")>>
    /\ applied.args[1].patternRows[3][1] = <<LNum("65")>>
    /\ returned.value.caseIndices = <<0, 2>>

\* C23: whenever matchTableSpecializeSuccess or matchTableSpecializeFail is
\* called with a column index outside the table (below 0, or at or above the
\* column count), or with a table in which the cell of some row at that
\* column is not a union of exactly one type, the call returns undefined: it
\* does not throw and it does not return a table, also for a table without
\* rows.
C23_SoftFailure ==
    LET m == applied.args[1]
        j == applied.args[3]
    IN  (/\ Called("matchTableSpecializeSuccess")
            \/ Called("matchTableSpecializeFail")
         /\ \/ j \notin 0..(matchTableColumnCount(m) - 1)
            \/ \E i \in 1..Len(m.patternRows) : Len(m.patternRows[i][j + 1]) # 1)
        => returned.kind = "undefined"

\* C24: whenever decisionTreeCompile is at a table m and isCheckSkippable
\* accepts a candidate check (T, j) of m, the test of T at occurrences[j]
\* succeeds on every run-time value of the input type of m, so that leaving
\* the test out changes nothing.
C24_SkippableChecksSound ==
    (/\ status = "running"
     /\ Undecided(stack[1].table)
     /\ AssertionsHold(stack[1].table)) =>
        LET m == stack[1].table
            sk == skippableChecks(m, possibleChecks(m)[1])
            vs == {v \in Values : ValueMatchesUnion(v, m.input)}
        IN  \A i \in 1..Len(sk) : \A v \in vs :
                createTestAtOccurrence(sk[i].type,
                                       m.occurrences[sk[i].columnIndex + 1], v)
                    = Some(TRUE)

\* C25: at every call of decisionTreeCompile, on a table derived from an entry
\* table, no assertion fails: every cell holds a single pattern, a table
\* without columns has at most one row, and on a table that is neither fail
\* nor success possibleChecks returns one candidate per column and both
\* specializations of every candidate return a table.
C25_NoAssertionFails ==
    /\ status # "crashed"
    /\ status = "running" =>
          LET m == stack[1].table
          IN  /\ \A j \in 0..(matchTableColumnCount(m) - 1) : ColumnIsSingle(m, j)
              /\ matchTableColumnCount(m) = 0 => matchTableRowCount(m) <= 1
              /\ Undecided(m) =>
                    /\ AssertionsHold(m)
                    /\ Len(possibleChecks(m)[1]) = matchTableColumnCount(m)

\* C26: at every call of decisionTreeCompile on a table m and for every check
\* (T, j) the compiler may choose there, the input of the success table is the
\* intersection of m.input with m.input replaced at occurrences[j] by T with
\* unknown arguments, expand and remove leave it unchanged, the fail table
\* keeps m.input, and the input of each derived table is a subtype of m.input.
C26_InputNarrows ==
    (/\ status = "running"
     /\ Undecided(stack[1].table)
     /\ AssertionsHold(stack[1].table)) =>
        LET m == stack[1].table
            checks == possibleChecks(m)[1]
            sk == skippableChecks(m, checks)
            chosen == IF Len(sk) > 0 THEN sk ELSE checks
        IN  \A i \in 1..Len(chosen) :
                LET c == chosen[i]
                    s == matchTableSpecializeSuccess(m, c.type, c.columnIndex)[1]
                    f == matchTableSpecializeFail(m, c.type, c.columnIndex)[1]
                IN  /\ s.input = unionIntersection(m.input,
                                     unionReplaceAt(m.input, m.occurrences[c.columnIndex + 1],
                                                    <<typeMakeArgumentsUnknown(c.type)>>))
                    /\ matchTableExpand(s).input = s.input
                    /\ matchTableRemove(matchTableExpand(s)).input = s.input
                    /\ f.input = m.input
                    /\ unionIsSubtype(s.input, m.input)
                    /\ unionIsSubtype(CleanedUpSuccessTable(m, c).input, m.input)
                    /\ unionIsSubtype(f.input, m.input)

\* C27 (as stated): at every call of decisionTreeCompile on a table m and for
\* every check (T, j) the compiler may choose there, the total pattern size of
\* remove(expand(specializeSuccess(m, T, j))) is strictly smaller than that of
\* m, whether unknown is counted as a constructor or not.
C27_SuccessBranchShrinksTotal ==
    (/\ status = "running"
     /\ Undecided(stack[1].table)
     /\ AssertionsHold(stack[1].table)) =>
    LET RECURSIVE TypeSize(_, _), UnionSize(_, _), CellsSize(_, _), RowsSize(_, _)
        \* constructors of a pattern, unknown counted w times
        TypeSize(t, w) ==
            CASE t.kind = "unknown" -> w
              [] t.kind \in {"literal", "primitive"} -> 1
              [] t.kind = "tuple" -> 1 + CellsSize(t.elements, w)
              [] t.kind = "array" -> 1 + UnionSize(t.element, w)
              [] t.kind = "object" -> 1 + CellsSize(FieldsValues(t.fields), w)
              [] t.kind = "record" -> 1 + UnionSize(t.value, w)
        UnionSize(u, w) ==
            IF u = <<>> THEN 0 ELSE TypeSize(u[1], w) + UnionSize(Tail(u), w)
        CellsSize(cells, w) ==
            IF cells = <<>> THEN 0
            ELSE UnionSize(cells[1], w) + CellsSize(Tail(cells), w)
        RowsSize(rows, w) ==
            IF rows = <<>> THEN 0
            ELSE CellsSize(rows[1], w) + RowsSize(Tail(rows), w)
        m == stack[1].table
        checks == possibleChecks(m)[1]
        sk == skippableChecks(m, checks)
        chosen == IF Len(sk) > 0 THEN sk ELSE checks
    IN  \A i \in 1..Len(chosen) :
            \/ RowsSize(CleanedUpSuccessTable(m, chosen[i]).patternRows, 1)
                   < RowsSize(m.patternRows, 1)
            \/ RowsSize(CleanedUpSuccessTable(m, chosen[i]).patternRows, 0)
                   < RowsSize(m.patternRows, 0)

\* C27 (amended): at every such call and for every check (T, j) that may be
\* chosen, some row of m has at column j a pattern whose constructor equals T,
\* and every such row is kept by specializeSuccess(m, T, j) with a pattern
\* size exactly one smaller (the checked constructor is gone and its arguments
\* took its place), every constructor counted once.
C27_CheckedRowsShrinkByOne ==
    (/\ status = "running"
     /\ Undecided(stack[1].table)
     /\ AssertionsHold(stack[1].table)) =>
    LET RECURSIVE TypeSize(_, _), UnionSize(_, _), CellsSize(_, _), RowsSize(_, _)
        \* constructors of a pattern, unknown counted w times
        TypeSize(t, w) ==
            CASE t.kind = "unknown" -> w
              [] t.kind \in {"literal", "primitive"} -> 1
              [] t.kind = "tuple" -> 1 + CellsSize(t.elements, w)
              [] t.kind = "array" -> 1 + UnionSize(t.element, w)
              [] t.kind = "object" -> 1 + CellsSize(FieldsValues(t.fields), w)
              [] t.kind = "record" -> 1 + UnionSize(t.value, w)
        UnionSize(u, w) ==
            IF u = <<>> THEN 0 ELSE TypeSize(u[1], w) + UnionSize(Tail(u), w)
        CellsSize(cells, w) ==
            IF cells = <<>> THEN 0
            ELSE UnionSize(cells[1], w) + CellsSize(Tail(cells), w)
        RowsSize(rows, w) ==
            IF rows = <<>> THEN 0
            ELSE CellsSize(rows[1], w) + RowsSize(Tail(rows), w)
        m == stack[1].table
        checks == possibleChecks(m)[1]
        sk == skippableChecks(m, checks)
        chosen == IF Len(sk) > 0 THEN sk ELSE checks
        checked(c) == {i \in 1..Len(m.patternRows) :
                          typeEqualConstructor(c.type,
                              m.patternRows[i][c.columnIndex + 1][1])}
    IN  \A n \in 1..Len(chosen) :
            LET c == chosen[n]
                s == matchTableSpecializeSuccess(m, c.type, c.columnIndex)[1]
                kept == KeptBySuccess(m, c.type, c.columnIndex)
            IN  /\ checked(c) # {}
                /\ \A i \in checked(c) : \E k \in 1..Len(kept) :
                       /\ kept[k] = i
                       /\ CellsSize(s.patternRows[k], 1)
                              = CellsSize(m.patternRows[i], 1) - 1

\* a call at which the rows of the checked constructor shrink while the
\* cleaned-up success table is as large as the table it came from
C27_Witness ==
    /\ status = "running"
    /\ Undecided(stack[1].table)
    /\ AssertionsHold(stack[1].table)
    /\ LET RECURSIVE TypeSize(_, _), UnionSize(_, _), CellsSize(_, _), RowsSize(_, _)
               \* constructors of a pattern, unknown counted w times
               TypeSize(t, w) ==
                   CASE t.kind = "unknown" -> w
                     [] t.kind \in {"literal", "primitive"} -> 1
                     [] t.kind = "tuple" -> 1 + CellsSize(t.elements, w)
                     [] t.kind = "array" -> 1 + UnionSize(t.element, w)
                     [] t.kind = "object" -> 1 + CellsSize(FieldsValues(t.fields), w)
                     [] t.kind = "record" -> 1 + UnionSize(t.value, w)
               UnionSize(u, w) ==
                   IF u = <<>> THEN 0 ELSE TypeSize(u[1], w) + UnionSize(Tail(u), w)
               CellsSize(cells, w) ==
                   IF cells = <<>> THEN 0
                   ELSE UnionSize(cells[1], w) + CellsSize(Tail(cells), w)
               RowsSize(rows, w) ==
                   IF rows = <<>> THEN 0
                   ELSE CellsSize(rows[1], w) + RowsSize(Tail(rows), w)
               m == stack[1].table
               checks == possibleChecks(m)[1]
               sk == skippableChecks(m, checks)
               chosen == IF Len(sk) > 0 THEN sk ELSE checks
       IN  \E i \in 1..Len(chosen) :
               /\ chosen[i].type.kind = "array"
               /\ RowsSize(CleanedUpSuccessTable(m, chosen[i]).patternRows, 1)
                      >= RowsSize(m.patternRows, 1)

\* C28: at every call of decisionTreeCompile on a table m where no check is
\* skippable, for every check (T, j) that may be chosen the row that supplied
\* the first minimum of column j has a pattern whose constructor equals T, it
\* is absent from specializeFail(m, T, j), and the fail table has strictly
\* fewer rows than m.
C28_FailBranchLosesARow ==
    (/\ status = "running"
     /\ Undecided(stack[1].table)
     /\ AssertionsHold(stack[1].table)
     /\ skippableChecks(stack[1].table, possibleChecks(stack[1].table)[1]) = <<>>) =>
        LET m == stack[1].table
            checks == possibleChecks(m)[1]
        IN  \A n \in 1..Len(checks) :
                LET c == checks[n]
                    j == c.columnIndex + 1
                    column == [i \in 1..matchTableRowCount(m) |-> m.patternRows[i][j][1]]
                    f == matchTableSpecializeFail(m, c.type, c.columnIndex)[1]
                    suppliers == {i \in 1..matchTableRowCount(m) :
                                     column[i] = typeMinima(column)[1]}
                IN  /\ suppliers # {}
                    /\ \A i \in suppliers :
                           /\ typeEqualConstructor(c.type, column[i])
                           /\ \/ m.caseIndices[i] \notin
                                     {f.caseIndices[k] : k \in 1..Len(f.caseIndices)}
                              \/ m.patternRows[i] \notin
                                     {f.patternRows[k] : k \in 1..Len(f.patternRows)}
                    /\ matchTableRowCount(f) < matchTableRowCount(m)

\* a split whose fail table lost rows and kept others
C28_Witness ==
    /\ status = "running"
    /\ Undecided(stack[1].table)
    /\ AssertionsHold(stack[1].table)
    /\ skippableChecks(stack[1].table, possibleChecks(stack[1].table)[1]) = <<>>
    /\ matchTableRowCount(stack[1].table) >= 3
    /\ \E c \in findBestCheck(possibleChecks(stack[1].table)[1]) :
          LET f == matchTableSpecializeFail(stack[1].table, c.type, c.columnIndex)[1]
          IN  /\ matchTableRowCount(f) > 0
              /\ matchTableRowCount(f) < matchTableRowCount(stack[1].table) - 1

\* C29: when matchTableSpecializeFail(m, T, j) has returned a table for a
\* column j of m, matchTableSpecializeSuccess(m, T, j) returns a table too,
\* every row of m is in the fail table or in the success table, and a row
\* whose pattern has the constructor of T is out of the fail table and in the
\* success table.  (Row i of a library table carries case index i - 1.)
C29_NoRowLostBySplit ==
    (/\ ReturnedTable("matchTableSpecializeFail")
     /\ applied.args[3] \in 0..(matchTableColumnCount(applied.args[1]) - 1)) =>
        LET m == applied.args[1]
            type == applied.args[2]
            columnIndex == applied.args[3]
            f == returned.value
            s == matchTableSpecializeSuccess(m, type, columnIndex)
            inFail(i) == \E k \in 1..Len(f.caseIndices) :
                            f.caseIndices[k] = m.caseIndices[i]
            inSuccess(i) == \E k \in 1..Len(s[1].caseIndices) :
                               s[1].caseIndices[k] = m.caseIndices[i]
        IN  /\ s # None
            /\ SpecializeSuccessAsserts(m, type, columnIndex)
            /\ \A i \in 1..matchTableRowCount(m) :
                   /\ inFail(i) \/ inSuccess(i)
                   /\ typeEqualConstructor(type, m.patternRows[i][columnIndex + 1][1])
                         => (~inFail(i) /\ inSuccess(i))

\* a split of the rows unknown, number, 65 by the check of number: the first
\* row goes to both tables, the second to the success table only, the third
\* to the fail table only
C29_Witness ==
    /\ ReturnedTable("matchTableSpecializeFail")
    /\ applied.args[1].patternRows
          = <<<<<<Unknown>>>>, <<<<Prim("number")>>>>, <<<<LNum("65")>>>>>>
    /\ applied.args[2] = Prim("number")
    /\ applied.args[3] = 0
    /\ returned.value.caseIndices = <<0, 2>>
    /\ matchTableSpecializeSuccess(applied.args[1], Prim("number"), 0)[1].caseIndices
          = <<0, 1>>

\* C30: whenever unionIntersection(u, v) has returned, its result is unionEqual
\* to unionIntersection(v, u), and when one operand is [unknown] and the other a
\* single type B the result is unionEqual to [B].
C30_UnknownIdentityAndCommutative ==
    Called("unionIntersection") =>
        LET u == applied.args[1]
            v == applied.args[2]
        IN  /\ unionEqual(returned.value, unionIntersection(v, u))
            /\ (u = <<Unknown>> /\ Len(v) = 1) => unionEqual(returned.value, v)
            /\ (v = <<Unknown>> /\ Len(u) = 1) => unionEqual(returned.value, u)

============================================================================
